---- MODULE Spec2Model ----
(***************************************************************************)
(* Model of the x402 payment gateway: the payment ledger (PaymentTracker   *)
(* over X402Database), the periodic maintenance tasks, the unified payment  *)
(* gateway and the request interceptor (X402Middleware.dispatch).           *)
(*                                                                          *)
(* Every database statement (SELECT, INSERT/UPDATE at commit) is one step,  *)
(* so calls made by different requests or workers interleave between their  *)
(* read and their write, as they do against the shared PostgreSQL store.    *)
(* Amounts are integers in atomic units (1 USDC = 10^6).                    *)
(***************************************************************************)
EXTENDS Integers, Sequences, FiniteSets, TLC

\* ---------------------------------------------------------------- bounds
MaxOps == 4
MaxRequests == 3
TokenExpiryHours == 1
MaxTokens == 1

\* ----------------------------------------------------- program constants
RequestsPerDollar == 1000
UsdcScale == 1000000

\* the retention period of usage rows in clock ticks, shorter than the run
UsageRetentionDays == 1
MaxTime == TokenExpiryHours + 1
Procs == {1, 2}
TxHashes == {"tx1", "tx2"}
Amounts == {500, 1000, 2000}
MaxPayments == Cardinality(TxHashes)
PaymentIds == 1..MaxPayments
RawTokens == 1..(MaxTokens + 1)

VARIABLES
    payments,    \* table x402_payments: sequence of rows, id = index
    tokens,      \* table x402_tokens: set of rows
    usage,       \* table x402_usage: per payment id, the created_at of its rows
    now,         \* datetime.utcnow()
    nextRaw,     \* number of raw secrets generated so far
    ops,         \* number of calls and requests started
    pc,          \* per caller: position in the call it is running
    loc,         \* per caller: frame of the ledger call it is in
    http,        \* per caller: frame of the request the interceptor handles
    consumeOk,   \* per payment id: number of consume calls that returned True
    limiter,     \* the RateLimiter: its requests and blocked_ips dicts
    admitted,    \* per identifier: the times of the calls the limiter allowed
    passed       \* per payment id: the requests handed downstream on its strength

vars == <<payments, tokens, usage, now, nextRaw, ops, pc, loc, http, consumeOk, limiter,
          admitted, passed>>

\* ------------------------------------------------------------- rows, results
NoRow == [tx_hash |-> "", amount |-> 0, status |-> "none",
          requests_allocated |-> 0, requests_used |-> 0, expires_at |-> 0]

NoDict == [id |-> 0, tx_hash |-> "", amount_usdc |-> 0, status |-> "none",
           expires_at |-> 0, requests_allocated |-> 0, requests_used |-> 0,
           requests_remaining |-> 0]

NoResult == [kind |-> "none", err |-> "", dict |-> NoDict, val |-> 0]

requests_remaining(row) == row.requests_allocated - row.requests_used

_payment_to_dict(id, row) ==
    [id |-> id, tx_hash |-> row.tx_hash, amount_usdc |-> row.amount,
     status |-> row.status, expires_at |-> row.expires_at,
     requests_allocated |-> row.requests_allocated,
     requests_used |-> row.requests_used,
     requests_remaining |-> requests_remaining(row)]

ReturnDict(id, row) == [NoResult EXCEPT !.kind = "dict", !.dict = _payment_to_dict(id, row)]
ReturnNone == [NoResult EXCEPT !.kind = "None"]
ReturnVal(v) == [NoResult EXCEPT !.kind = "val", !.val = v]
Raise(e) == [NoResult EXCEPT !.kind = "raise", !.err = e]

NoFrame == [op |-> "", caller |-> "", tx |-> "", amount |-> 0, id |-> 0,
            snap |-> NoRow, expires |-> 0, raw |-> 0, ids |-> {},
            writes |-> <<>>, result |-> NoResult]

\* the frame of a call that has returned: its arguments and its result
Returned(f, result) ==
    [NoFrame EXCEPT !.op = f.op, !.caller = f.caller, !.tx = f.tx,
                    !.amount = f.amount, !.id = f.id, !.raw = f.raw,
                    !.result = result]

\* ------------------------------------------------------------------ queries
get_payment_by_tx_hash(tx) ==
    IF \E i \in DOMAIN payments : payments[i].tx_hash = tx
    THEN CHOOSE i \in DOMAIN payments : payments[i].tx_hash = tx
    ELSE 0

get_payment_by_id(id) == IF id \in DOMAIN payments THEN id ELSE 0

\* amount_usdc is a float and requests_per_dollar is 1000: the amounts, in
\* atomic units below 2^31 / 1000, whose IEEE 754 double product with 1000 is
\* just below the integer that the exact product is (1.001 * 1000 is
\* 1000.9999999999999)
FloatShortfall ==
    {1001000, 1003000, 1005000, 1007000, 1009000, 1011000, 1013000, 1015000,
     1017000, 1019000, 1021000, 1023000, 2002000, 2006000, 2010000, 2014000,
     2018000, 2022000, 2026000, 2030000, 2034000, 2038000, 2042000, 2046000}

\* int(amount_usdc * self.requests_per_dollar), amount in atomic units: the
\* truncation of the float product
RequestsAllocated(amount) ==
    ((amount * RequestsPerDollar) \div UsdcScale)
        - (IF amount \in FloatShortfall THEN 1 ELSE 0)

\* where a ledger call continues when it returns: a call made through the
\* tracker's API is done, a call made by the gateway or the interceptor
\* continues at the place the caller named
ReturnTo(caller) == IF caller = "api" THEN "done" ELSE caller

\* Positions at which the next step of a caller touches nothing shared (it
\* takes a result, evaluates headers, waits for an external service). Such a
\* step is taken before any other caller moves: it commutes with every step
\* of the others, so this ordering loses no behaviour of the shared ledger.
LocalPcs == {"done", "gw_payai", "gw_payai_settle", "gw_payai_recorded", "gw_native",
             "gw_token_resolved", "d_usage_recorded", "d_402",
             "call_next", "call_next_fallback"}

Settled == \A p \in Procs : pc[p] \notin LocalPcs

\* ------------------------------------------------- requests and responses
\* X402_ENDPOINT_PRICES (config.py 73-84): the priced endpoints, in atomic
\* units; with RequestsPerDollar they buy one and two requests
EndpointPrices == [e \in {"/exploits", "/protocols/risk-score"} |->
                      IF e = "/exploits" THEN 1000 ELSE 2000]

Methods == {"GET", "POST", "OPTIONS"}
Paths == {"/exploits", "/protocols/risk-score", "/health", "/docs", "/stats"}

\* a request: method, path, whether it carries "Authorization: Bearer ...",
\* the x-payment header, the x-payment-tx and x-payment-chain headers and the
\* x-payment-token header (0 when absent), and X402_ENABLED as read for it
AllRequests == [method : Methods, path : Paths, bearer : BOOLEAN, enabled : BOOLEAN,
                x_payment : BOOLEAN, x_tx : BOOLEAN, x_chain : BOOLEAN,
                x_token : 0..MaxTokens]

\* the payment headers a request carries: none, those of one tier (for the
\* native tier the transaction with or without the chain), or all of them
HeaderSets == {<<FALSE, FALSE, FALSE, 0>>, <<TRUE, FALSE, FALSE, 0>>,
               <<FALSE, TRUE, TRUE, 0>>, <<FALSE, TRUE, FALSE, 0>>,
               <<FALSE, FALSE, FALSE, MaxTokens>>, <<TRUE, TRUE, TRUE, MaxTokens>>}

PaymentHeaders(r) == <<r.x_payment, r.x_tx, r.x_chain, r.x_token>>

\* in how many ways the request differs from a GET for a priced path that has
\* no bearer credential and finds the interceptor enabled
Deviations(r) ==
    (IF r.method # "GET" THEN 1 ELSE 0)
    + (IF r.path \notin DOMAIN EndpointPrices THEN 1 ELSE 0)
    + (IF r.bearer THEN 1 ELSE 0)
    + (IF ~r.enabled THEN 1 ELSE 0)

\* the requests served: GET requests for a priced path with each set of
\* payment headers, and requests that differ from them in one way, with no
\* payment header or with all of them
Requests == {r \in AllRequests :
                \/ Deviations(r) = 0 /\ PaymentHeaders(r) \in HeaderSets
                \/ Deviations(r) = 1
                     /\ PaymentHeaders(r) \in {<<FALSE, FALSE, FALSE, 0>>,
                                               <<TRUE, TRUE, TRUE, MaxTokens>>}}

NoRequest == [method |-> "", path |-> "", bearer |-> FALSE, enabled |-> FALSE,
              x_payment |-> FALSE, x_tx |-> FALSE, x_chain |-> FALSE, x_token |-> 0]

\* a verification result dict of the gateway
NoAuth == [is_valid |-> FALSE, payment_id |-> 0, payment_type |-> "", error |-> ""]
Invalid(error) == [NoAuth EXCEPT !.error = error]
Valid(id, type) == [NoAuth EXCEPT !.is_valid = TRUE, !.payment_id = id, !.payment_type = type]

NoHeaders == [X_Payment_Required |-> "", X_Payment_Amount |-> 0, X_Payment_Currency |-> ""]
NoBody == [payment_required |-> FALSE, endpoint |-> "", amount_usdc |-> 0,
           payment_options |-> <<>>]

NoResponse == [status |-> 0, from |-> "", headers |-> NoHeaders, body |-> NoBody]

\* the frame of a request in dispatch: the request, the defect injected into
\* the interceptor's own code, what dispatch found, and what it did; the
\* calls made to the facilitator with their results, and whether the chain
\* verifier accepted the transaction of the native tier
NoHttp == [req |-> NoRequest, defect |-> "none", state |-> "", price |-> 0,
           auth |-> NoAuth, auth_raised |-> FALSE, sink_raised |-> FALSE,
           usage_raised |-> FALSE,
           defect_raised |-> FALSE, tiers |-> <<>>, analytics |-> <<>>,
           facilitator_calls |-> <<>>, onchain_verified |-> FALSE,
           calls |-> 0, response |-> NoResponse]

\* ----------------------------------------------------------- RateLimiter
Identifiers == {"ip1", "ip2"}

\* security.py 174-176: both dicts are empty
NewRateLimiter == [requests |-> << >>, blocked_ips |-> << >>]

Init ==
    /\ payments = <<>>
    /\ tokens = {}
    /\ usage = [i \in PaymentIds |-> <<>>]
    /\ now = 0
    /\ nextRaw = 0
    /\ ops = 0
    /\ pc = [p \in Procs |-> "idle"]
    /\ loc = [p \in Procs |-> NoFrame]
    /\ http = [p \in Procs |-> NoHttp]
    /\ consumeOk = [i \in PaymentIds |-> 0]
    /\ limiter = NewRateLimiter
    /\ admitted = [i \in Identifiers |-> <<>>]
    /\ passed = [i \in PaymentIds |-> 0]

\* a caller starts a new call or a new request arrives
Start(p) ==
    /\ Settled
    /\ pc[p] = "idle"
    /\ ops < MaxOps
    /\ ops' = ops + 1

\* the caller takes the result of its call and is free again
Finish(p) ==
    /\ pc[p] = "done"
    /\ pc' = [pc EXCEPT ![p] = "idle"]
    /\ loc' = [loc EXCEPT ![p] = NoFrame]
    /\ http' = [http EXCEPT ![p] = NoHttp]
    /\ UNCHANGED <<payments, tokens, usage, now, nextRaw, ops, consumeOk, limiter, admitted, passed>>

\* the clock advances
Tick ==
    /\ Settled
    /\ now < MaxTime
    /\ now' = now + 1
    /\ UNCHANGED <<payments, tokens, usage, nextRaw, ops, pc, loc, http, consumeOk, limiter, admitted, passed>>

\* ------------------------------------- PaymentTracker.create_payment_record
\* a lookup that answers with the data of the call instead of the stored row
CreatePaymentRecordEcho(p, f) ==
    LET existing == get_payment_by_tx_hash(f.tx) IN
    IF existing # 0
    THEN /\ loc' = [loc EXCEPT ![p] = Returned(f, ReturnDict(existing,
                        [payments[existing] EXCEPT !.amount = f.amount,
                            !.requests_allocated = RequestsAllocated(f.amount)]))]
         /\ pc' = [pc EXCEPT ![p] = ReturnTo(f.caller)]
    ELSE /\ loc' = [loc EXCEPT ![p] = [f EXCEPT !.expires = now + TokenExpiryHours]]
         /\ pc' = [pc EXCEPT ![p] = "cp_select"]

\* payment_tracker.py 57-67: existence check, allocation and expiry
CreatePaymentRecordLookup(p, f) ==
    LET existing == get_payment_by_tx_hash(f.tx) IN
    IF existing # 0
    THEN /\ loc' = [loc EXCEPT ![p] = Returned(f, ReturnDict(existing, payments[existing]))]
         /\ pc' = [pc EXCEPT ![p] = ReturnTo(f.caller)]
    ELSE /\ loc' = [loc EXCEPT ![p] = [f EXCEPT !.expires = now + TokenExpiryHours]]
         /\ pc' = [pc EXCEPT ![p] = "cp_select"]

\* create_payment_record called through the tracker's API
create_payment_record_call(p, tx, amount) ==
    /\ Start(p)
    /\ CreatePaymentRecordLookup(p, [NoFrame EXCEPT !.op = "create_payment_record",
                                       !.caller = "api", !.tx = tx, !.amount = amount])
    /\ UNCHANGED <<payments, tokens, usage, now, nextRaw, http, consumeOk, limiter, admitted, passed>>

\* create_payment_record called by the gateway (payment_gateway.py 197-206)
create_payment_record_lookup(p) ==
    /\ Settled
    /\ pc[p] = "cpr_lookup"
    /\ CreatePaymentRecordLookup(p, loc[p])
    /\ UNCHANGED <<payments, tokens, usage, now, nextRaw, ops, http, consumeOk, limiter, admitted, passed>>

\* database.py 40-47: the second existence check, inside create_payment
create_payment_select(p) ==
    /\ Settled
    /\ pc[p] = "cp_select"
    /\ LET existing == get_payment_by_tx_hash(loc[p].tx) IN
       IF existing # 0
       THEN /\ loc' = [loc EXCEPT ![p] = Returned(@, ReturnDict(existing, payments[existing]))]
            /\ pc' = [pc EXCEPT ![p] = ReturnTo(loc[p].caller)]
       ELSE /\ pc' = [pc EXCEPT ![p] = "cp_commit"]
            /\ UNCHANGED loc
    /\ UNCHANGED <<payments, tokens, usage, now, nextRaw, ops, http, consumeOk, limiter, admitted, passed>>

NewPayment(f) ==
    [tx_hash |-> f.tx, amount |-> f.amount, status |-> "verified",
     requests_allocated |-> RequestsAllocated(f.amount), requests_used |-> 0,
     expires_at |-> f.expires]

\* database.py 49-70: INSERT and commit; tx_hash is unique (models.py 17), so
\* the commit of a second row with the same tx_hash raises IntegrityError,
\* which neither create_payment nor create_payment_record catches
create_payment_commit(p) ==
    /\ Settled
    /\ pc[p] = "cp_commit"
    /\ IF get_payment_by_tx_hash(loc[p].tx) # 0
       THEN /\ loc' = [loc EXCEPT ![p] = Returned(@, Raise("IntegrityError"))]
            /\ UNCHANGED payments
       ELSE /\ payments' = Append(payments, NewPayment(loc[p]))
            /\ loc' = [loc EXCEPT ![p] = Returned(@,
                          ReturnDict(Len(payments) + 1, NewPayment(loc[p])))]
    /\ pc' = [pc EXCEPT ![p] = ReturnTo(loc[p].caller)]
    /\ UNCHANGED <<tokens, usage, now, nextRaw, ops, http, consumeOk, limiter, admitted, passed>>

\* ---------------------------------------------- PaymentTracker.record_usage
\* a consume that reads the row without comparing it to its allocation
UpdatePaymentUsageSelectUnchecked(p, f) ==
    LET id == get_payment_by_id(f.id) IN
    IF id = 0
    THEN /\ loc' = [loc EXCEPT ![p] = Returned(f, Raise("ValueError"))]
         /\ pc' = [pc EXCEPT ![p] = ReturnTo(f.caller)]
    ELSE /\ loc' = [loc EXCEPT ![p] = [f EXCEPT !.snap = payments[id]]]
         /\ pc' = [pc EXCEPT ![p] = "upu_commit"]

\* database.py 86-93: read the row and check the allocation; on False
\* record_usage raises ValueError (payment_tracker.py 147-148)
UpdatePaymentUsageSelect(p, f) ==
    LET id == get_payment_by_id(f.id) IN
    IF id = 0 \/ (id # 0 /\ payments[id].requests_used >= payments[id].requests_allocated)
    THEN /\ loc' = [loc EXCEPT ![p] = Returned(f, Raise("ValueError"))]
         /\ pc' = [pc EXCEPT ![p] = ReturnTo(f.caller)]
    ELSE /\ loc' = [loc EXCEPT ![p] = [f EXCEPT !.snap = payments[id]]]
         /\ pc' = [pc EXCEPT ![p] = "upu_commit"]

\* record_usage called through the tracker's API
record_usage_call(p, id) ==
    /\ Start(p)
    /\ UpdatePaymentUsageSelect(p, [NoFrame EXCEPT !.op = "record_usage",
                                      !.caller = "api", !.id = id])
    /\ UNCHANGED <<payments, tokens, usage, now, nextRaw, http, consumeOk, limiter, admitted, passed>>

\* record_usage called by the interceptor (middleware.py 95-99)
update_payment_usage_select(p) ==
    /\ Settled
    /\ pc[p] = "upu_select"
    /\ UpdatePaymentUsageSelect(p, loc[p])
    /\ UNCHANGED <<payments, tokens, usage, now, nextRaw, ops, http, consumeOk, limiter, admitted, passed>>

\* a consume that starts a new validity window for the payment
UsageWriteExtend(row, snap) ==
    [row EXCEPT !.requests_used = snap.requests_used + 1,
                !.status = IF snap.requests_used + 1 >= snap.requests_allocated
                              /\ snap.status # "used"
                           THEN "used" ELSE @,
                !.expires_at = now + TokenExpiryHours]

\* a consume that increments and never marks the payment as used
UsageWriteNoFlip(row, snap) ==
    [row EXCEPT !.requests_used = snap.requests_used + 1]

\* the row as update_payment_usage writes it: the ORM's UPDATE sets the
\* attributes assigned on the object that was read (database.py 95-100)
UsageWrite(row, snap) ==
    [row EXCEPT !.requests_used = snap.requests_used + 1,
                !.status = IF snap.requests_used + 1 >= snap.requests_allocated
                              /\ snap.status # "used"
                           THEN "used" ELSE @]

\* database.py 95-103: increment, flip to 'used', commit, return True
update_payment_usage_commit(p) ==
    /\ Settled
    /\ pc[p] = "upu_commit"
    /\ payments' = [payments EXCEPT ![loc[p].id] = UsageWrite(@, loc[p].snap)]
    /\ consumeOk' = [consumeOk EXCEPT ![loc[p].id] = @ + 1]
    /\ pc' = [pc EXCEPT ![p] = "ru_insert"]
    /\ UNCHANGED <<tokens, usage, now, nextRaw, ops, loc, http, limiter, admitted, passed>>

\* payment_tracker.py 150-161 / database.py 179-209: append the usage row
record_usage_insert(p) ==
    /\ Settled
    /\ pc[p] = "ru_insert"
    /\ usage' = [usage EXCEPT ![loc[p].id] = Append(@, now)]
    /\ loc' = [loc EXCEPT ![p] = Returned(@, ReturnNone)]
    /\ pc' = [pc EXCEPT ![p] = ReturnTo(loc[p].caller)]
    /\ UNCHANGED <<payments, tokens, now, nextRaw, ops, http, consumeOk, limiter, admitted, passed>>

\* ------------------------------------ PaymentTracker.cleanup_expired_payments
\* a sweep that expires every payment past its expiry, whatever its status
SweepRowAnyStatus(row) ==
    IF row.expires_at < now THEN [row EXCEPT !.status = "expired"] ELSE row

SweepRow(row) ==
    IF row.status = "verified" /\ row.expires_at < now
    THEN [row EXCEPT !.status = "expired"] ELSE row

SweptIds == {i \in DOMAIN payments : SweepRow(payments[i]) # payments[i]}

\* database.py 105-129: one UPDATE and one DELETE, committed together
cleanup_expired_payments(p) ==
    /\ Start(p)
    /\ pc' = [pc EXCEPT ![p] = "done"]
    /\ payments' = [i \in DOMAIN payments |-> SweepRow(payments[i])]
    /\ tokens' = {t \in tokens : ~(t.expires_at < now)}
    /\ loc' = [loc EXCEPT ![p] = [NoFrame EXCEPT !.op = "cleanup_expired_payments",
                                   !.caller = "api",
                                   !.result = ReturnVal(Cardinality(SweptIds))]]
    /\ UNCHANGED <<usage, now, nextRaw, http, consumeOk, limiter, admitted, passed>>

\* ------------------------------------- PaymentTracker.generate_payment_token
\* a fingerprint that is the same for every secret
HashCollides(raw) == [sha256 |-> 0]

\* payment_tracker.py 186-188: the stored fingerprint of a raw secret
_hash_token(raw) == [sha256 |-> raw]

\* a mint that does not look at the payment's status
GenerateTokenUnchecked(p, pid) ==
    /\ Start(p)
    /\ LET f == [NoFrame EXCEPT !.op = "generate_payment_token", !.caller = "api",
                                !.id = pid]
           id == get_payment_by_id(pid) IN
       IF id = 0
       THEN /\ loc' = [loc EXCEPT ![p] = Returned(f, Raise("Payment not found"))]
            /\ pc' = [pc EXCEPT ![p] = "done"]
            /\ UNCHANGED nextRaw
       ELSE /\ nextRaw < MaxTokens
            /\ nextRaw' = nextRaw + 1
            /\ loc' = [loc EXCEPT ![p] = [f EXCEPT !.snap = payments[id],
                                                   !.raw = nextRaw + 1]]
            /\ pc' = [pc EXCEPT ![p] = "ct_commit"]
    /\ UNCHANGED <<payments, tokens, usage, now, http, consumeOk, limiter, admitted, passed>>

\* payment_tracker.py 92-102: read the payment, check its status, draw a
\* fresh secret (secrets.token_urlsafe)
generate_payment_token(p, pid) ==
    /\ Start(p)
    /\ LET f == [NoFrame EXCEPT !.op = "generate_payment_token", !.caller = "api",
                                !.id = pid]
           id == get_payment_by_id(pid) IN
       IF id = 0
       THEN /\ loc' = [loc EXCEPT ![p] = Returned(f, Raise("Payment not found"))]
            /\ pc' = [pc EXCEPT ![p] = "done"]
            /\ UNCHANGED nextRaw
       ELSE IF payments[id].status # "verified"
       THEN /\ loc' = [loc EXCEPT ![p] = Returned(f, Raise("Payment not verified"))]
            /\ pc' = [pc EXCEPT ![p] = "done"]
            /\ UNCHANGED nextRaw
       ELSE /\ nextRaw < MaxTokens
            /\ nextRaw' = nextRaw + 1
            /\ loc' = [loc EXCEPT ![p] = [f EXCEPT !.snap = payments[id],
                                                   !.raw = nextRaw + 1]]
            /\ pc' = [pc EXCEPT ![p] = "ct_commit"]
    /\ UNCHANGED <<payments, tokens, usage, now, http, consumeOk, limiter, admitted, passed>>

\* a mint that gives the token a validity window of its own
CreateTokenFreshWindow(p) ==
    /\ Settled
    /\ pc[p] = "ct_commit"
    /\ tokens' = tokens \cup {[token_hash |-> _hash_token(loc[p].raw),
                               payment_id |-> loc[p].id,
                               expires_at |-> now + TokenExpiryHours,
                               last_used_at |-> -1]}
    /\ loc' = [loc EXCEPT ![p] = Returned(@, ReturnVal(loc[p].raw))]
    /\ pc' = [pc EXCEPT ![p] = "done"]
    /\ UNCHANGED <<payments, usage, now, nextRaw, ops, http, consumeOk, limiter, admitted, passed>>

\* database.py 133-152 / payment_tracker.py 104-113: INSERT the token row with
\* the expiry of the payment as it was read; return the raw secret
create_token_commit(p) ==
    /\ Settled
    /\ pc[p] = "ct_commit"
    /\ tokens' = tokens \cup {[token_hash |-> _hash_token(loc[p].raw),
                               payment_id |-> loc[p].id,
                               expires_at |-> loc[p].snap.expires_at,
                               last_used_at |-> -1]}
    /\ loc' = [loc EXCEPT ![p] = Returned(@, ReturnVal(loc[p].raw))]
    /\ pc' = [pc EXCEPT ![p] = "done"]
    /\ UNCHANGED <<payments, usage, now, nextRaw, ops, http, consumeOk, limiter, admitted, passed>>

\* ---------------------------------------- PaymentTracker.get_payment_by_token
get_token_by_hash(h) == {t \in tokens : t.token_hash = h}

\* models.py 72-75
is_valid(t) == t.expires_at > now

\* payment_tracker.py 118-123 / database.py 160-169: look the token up by the
\* hash of the secret and check its own expiry
GetPaymentByTokenLookup(p, f) ==
    LET found == get_token_by_hash(_hash_token(f.raw)) IN
    IF found = {} \/ (\E t \in found : ~is_valid(t))
    THEN /\ loc' = [loc EXCEPT ![p] = Returned(f, ReturnNone)]
         /\ pc' = [pc EXCEPT ![p] = ReturnTo(f.caller)]
    ELSE /\ loc' = [loc EXCEPT ![p] = [f EXCEPT !.id = (CHOOSE t \in found : TRUE).payment_id]]
         /\ pc' = [pc EXCEPT ![p] = "tok_touch"]

\* get_payment_by_token called through the tracker's API
get_payment_by_token_call(p, raw) ==
    /\ Start(p)
    /\ GetPaymentByTokenLookup(p, [NoFrame EXCEPT !.op = "get_payment_by_token",
                                     !.caller = "api", !.raw = raw])
    /\ UNCHANGED <<payments, tokens, usage, now, nextRaw, http, consumeOk, limiter, admitted, passed>>

\* get_payment_by_token called by the interceptor (middleware.py 171)
get_payment_by_token_lookup(p) ==
    /\ Settled
    /\ pc[p] = "tok_lookup"
    /\ GetPaymentByTokenLookup(p, loc[p])
    /\ UNCHANGED <<payments, tokens, usage, now, nextRaw, ops, http, consumeOk, limiter, admitted, passed>>

\* database.py 171-175 / payment_tracker.py 125-128: commit last_used_at and
\* load token.payment. The UPDATE of a token row that the sweep has deleted
\* in the meantime matches no row, which the ORM reports as StaleDataError.
get_payment_by_token_hash_touch(p) ==
    /\ Settled
    /\ pc[p] = "tok_touch"
    /\ LET found == get_token_by_hash(_hash_token(loc[p].raw)) IN
       IF found = {}
       THEN /\ loc' = [loc EXCEPT ![p] = Returned(@, Raise("StaleDataError"))]
            /\ UNCHANGED tokens
       ELSE /\ tokens' = {IF t \in found THEN [t EXCEPT !.last_used_at = now] ELSE t
                             : t \in tokens}
            /\ loc' = [loc EXCEPT ![p] = Returned(@, ReturnDict(loc[p].id, payments[loc[p].id]))]
    /\ pc' = [pc EXCEPT ![p] = ReturnTo(loc[p].caller)]
    /\ UNCHANGED <<payments, usage, now, nextRaw, ops, http, consumeOk, limiter, admitted, passed>>

\* ------------------------------------------------------------ tasks.py
\* tasks.py 85-92: SELECT the verified payments past their expiry
task_cleanup_expired_payments(p) ==
    /\ Start(p)
    /\ loc' = [loc EXCEPT ![p] = [NoFrame EXCEPT !.op = "task_cleanup_expired_payments",
                                   !.caller = "api", !.ids = SweptIds]]
    /\ pc' = [pc EXCEPT ![p] = "tcep_commit"]
    /\ UNCHANGED <<payments, tokens, usage, now, nextRaw, http, consumeOk, limiter, admitted, passed>>

\* tasks.py 94-103: set status on each object read and commit; the UPDATE is
\* by primary key and does not look at the row's current status
task_cleanup_expired_payments_commit(p) ==
    /\ Settled
    /\ pc[p] = "tcep_commit"
    /\ payments' = [i \in DOMAIN payments |->
                       IF i \in loc[p].ids THEN [payments[i] EXCEPT !.status = "expired"]
                       ELSE payments[i]]
    /\ loc' = [loc EXCEPT ![p] = Returned(@, ReturnVal(Cardinality(loc[p].ids)))]
    /\ pc' = [pc EXCEPT ![p] = "done"]
    /\ UNCHANGED <<tokens, usage, now, nextRaw, ops, http, consumeOk, limiter, admitted, passed>>

\* tasks.py 110-135: one DELETE statement
cleanup_expired_tokens(p) ==
    /\ Start(p)
    /\ tokens' = {t \in tokens : ~(t.expires_at < now)}
    /\ loc' = [loc EXCEPT ![p] = [NoFrame EXCEPT !.op = "cleanup_expired_tokens",
                   !.caller = "api",
                   !.result = ReturnVal(Cardinality({t \in tokens : t.expires_at < now}))]]
    /\ pc' = [pc EXCEPT ![p] = "done"]
    /\ UNCHANGED <<payments, usage, now, nextRaw, http, consumeOk, limiter, admitted, passed>>

\* the usage rows of one payment that the cleanup keeps: those not created
\* before the cutoff
KeptUsage(rows, cutoff) ==
    LET NotOld(created_at) == ~(created_at < cutoff) IN SelectSeq(rows, NotOld)

\* the number of usage rows of the payments 1..n created before the cutoff
RECURSIVE OldUsage(_, _)
OldUsage(n, cutoff) ==
    IF n = 0 THEN 0
    ELSE OldUsage(n - 1, cutoff) + Len(usage[n]) - Len(KeptUsage(usage[n], cutoff))

\* tasks.py 138-164: one DELETE statement over the usage rows older than
\* the retention period (days, 90 by default)
cleanup_old_usage_records(p) ==
    /\ Start(p)
    /\ usage' = [i \in DOMAIN usage |-> KeptUsage(usage[i], now - UsageRetentionDays)]
    /\ loc' = [loc EXCEPT ![p] = [NoFrame EXCEPT !.op = "cleanup_old_usage_records",
                   !.caller = "api",
                   !.result = ReturnVal(OldUsage(MaxPayments, now - UsageRetentionDays))]]
    /\ pc' = [pc EXCEPT ![p] = "done"]
    /\ UNCHANGED <<payments, tokens, now, nextRaw, http, consumeOk, limiter, admitted, passed>>

\* tasks.py 414-441, for one payment as read: the attribute values the task
\* assigns; an attribute it leaves as read is not part of the UPDATE
RecalcRow(row, actual_usage) ==
    LET used == IF row.requests_used # actual_usage THEN actual_usage
                ELSE row.requests_used
        st1 == IF used >= row.requests_allocated /\ row.status = "verified"
               THEN "used" ELSE row.status
        st2 == IF row.expires_at < now /\ st1 = "verified" THEN "expired" ELSE st1
    IN [used |-> used, setUsed |-> (used # row.requests_used),
        status |-> st2, setStatus |-> (st2 # row.status)]

\* tasks.py 407-441: read every payment and count its usage rows
recalculate_payment_stats(p) ==
    /\ Start(p)
    /\ loc' = [loc EXCEPT ![p] = [NoFrame EXCEPT !.op = "recalculate_payment_stats",
                   !.caller = "api",
                   !.writes = [i \in DOMAIN payments |->
                                  RecalcRow(payments[i], Len(usage[i]))]]]
    /\ pc' = [pc EXCEPT ![p] = "rps_commit"]
    /\ UNCHANGED <<payments, tokens, usage, now, nextRaw, http, consumeOk, limiter, admitted, passed>>

\* tasks.py 443-449: commit the assigned attributes
recalculate_payment_stats_commit(p) ==
    /\ Settled
    /\ pc[p] = "rps_commit"
    /\ payments' = [i \in DOMAIN payments |->
                       IF i \in DOMAIN loc[p].writes
                       THEN [payments[i] EXCEPT
                               !.requests_used = IF loc[p].writes[i].setUsed
                                                 THEN loc[p].writes[i].used ELSE @,
                               !.status = IF loc[p].writes[i].setStatus
                                          THEN loc[p].writes[i].status ELSE @]
                       ELSE payments[i]]
    /\ loc' = [loc EXCEPT ![p] = Returned(@, ReturnVal(Len(loc[p].writes)))]
    /\ pc' = [pc EXCEPT ![p] = "done"]
    /\ UNCHANGED <<tokens, usage, now, nextRaw, ops, http, consumeOk, limiter, admitted, passed>>

\* ---------------------------------------------- X402Middleware.dispatch
\* a skip check that does not look at the Authorization header
ShouldSkipWithoutBearer(r) ==
    \/ r.method = "OPTIONS"
    \/ r.path \in {"/ready", "/health"}
    \/ r.path \in {"/docs", "/redoc", "/openapi.json"}

\* middleware.py 115-136
_should_skip_payment_check(r) ==
    \/ r.method = "OPTIONS"
    \/ r.path \in {"/ready", "/health"}
    \/ r.path \in {"/docs", "/redoc", "/openapi.json"}
    \/ r.bearer

NoConfig == [price |-> 0, endpoint |-> "", method |-> ""]

\* a configuration that prices a path for every method
GetPaymentConfigAnyMethod(r) ==
    IF r.path \in DOMAIN EndpointPrices
    THEN [price |-> EndpointPrices[r.path], endpoint |-> r.path, method |-> r.method]
    ELSE NoConfig

\* middleware.py 43-47 and 138-149: priced paths are priced for GET only
_get_payment_config(r) ==
    IF r.path \in DOMAIN EndpointPrices /\ r.method \in {"GET"}
    THEN [price |-> EndpointPrices[r.path], endpoint |-> r.path, method |-> r.method]
    ELSE NoConfig

\* payment_gateway.py 84, 106-108, 128-129: the first tier whose headers are
\* present, from the facilitator tier on and from the tiers after it
TierAfterNative(r) == IF r.x_token # 0 THEN "gw_token" ELSE "none"
\* a gateway that goes from the facilitator tier straight to the token tier
SkipNative(r) == IF r.x_token # 0 THEN "gw_token" ELSE "none"

TierAfterPayai(r) == IF r.x_tx /\ r.x_chain THEN "gw_native" ELSE TierAfterNative(r)
FirstTier(r) == IF r.x_payment THEN "gw_payai" ELSE TierAfterPayai(r)

\* middleware.py 69, 73, 78: the request goes to the downstream handler
PassThrough(p, h) ==
    /\ http' = [http EXCEPT ![p] = h]
    /\ pc' = [pc EXCEPT ![p] = "call_next"]
    /\ UNCHANGED loc

\* an outer handler that answers the error itself
FailClosed(p, h) ==
    /\ http' = [http EXCEPT ![p] = [h EXCEPT !.defect_raised = TRUE,
                    !.response = [NoResponse EXCEPT !.status = 500, !.from = "x402"]]]
    /\ pc' = [pc EXCEPT ![p] = "done"]
    /\ loc' = [loc EXCEPT ![p] = NoFrame]

\* middleware.py 109-113: the outer handler catches an error of the
\* interceptor's own code
FailOpen(p, h) ==
    /\ http' = [http EXCEPT ![p] = [h EXCEPT !.defect_raised = TRUE]]
    /\ pc' = [pc EXCEPT ![p] = "call_next_fallback"]
    /\ loc' = [loc EXCEPT ![p] = NoFrame]

\* a dispatch that lets the request through whatever verify_payment returned
AuthorizeOpen(p, h, auth) ==
    IF auth.is_valid
    THEN /\ http' = [http EXCEPT ![p] = [h EXCEPT !.auth = auth]]
         /\ loc' = [loc EXCEPT ![p] = [NoFrame EXCEPT !.op = "record_usage",
                                        !.caller = "d_usage_recorded",
                                        !.id = auth.payment_id]]
         /\ pc' = [pc EXCEPT ![p] = "upu_select"]
    ELSE /\ http' = [http EXCEPT ![p] = [h EXCEPT !.auth = auth]]
         /\ loc' = [loc EXCEPT ![p] = NoFrame]
         /\ pc' = [pc EXCEPT ![p] = "call_next"]

\* middleware.py 92-107: what dispatch does with the result of verify_payment
Authorize(p, h, auth) ==
    IF auth.is_valid
    THEN /\ http' = [http EXCEPT ![p] = [h EXCEPT !.auth = auth]]
         /\ loc' = [loc EXCEPT ![p] = [NoFrame EXCEPT !.op = "record_usage",
                                        !.caller = "d_usage_recorded",
                                        !.id = auth.payment_id]]
         /\ pc' = [pc EXCEPT ![p] = "upu_select"]
    ELSE /\ http' = [http EXCEPT ![p] = [h EXCEPT !.auth = auth]]
         /\ loc' = [loc EXCEPT ![p] = NoFrame]
         /\ pc' = [pc EXCEPT ![p] = "d_402"]

\* payment_gateway.py 105-136: verify_payment goes on with the next tier, or
\* returns that no valid authorization was found
Continue(p, h, tier) ==
    IF tier = "gw_token"
    THEN /\ http' = [http EXCEPT ![p] = h]
         /\ loc' = [loc EXCEPT ![p] = [NoFrame EXCEPT !.op = "get_payment_by_token",
                                        !.caller = "gw_token_resolved",
                                        !.raw = h.req.x_token]]
         /\ pc' = [pc EXCEPT ![p] = "tok_lookup"]
    ELSE IF tier = "none"
    THEN Authorize(p, h, Invalid("No valid payment authorization found"))
    ELSE /\ http' = [http EXCEPT ![p] = h]
         /\ loc' = [loc EXCEPT ![p] = NoFrame]
         /\ pc' = [pc EXCEPT ![p] = tier]

Defects == {"skip_check", "payment_config", "create_402"}

\* middleware.py 66-84: a request arrives; defect names the place in the
\* interceptor's own code where an unexpected error is raised, if any
dispatch(p, r, defect) ==
    /\ Start(p)
    /\ ops < MaxRequests
    /\ LET h == [NoHttp EXCEPT !.req = r, !.defect = defect] IN
       IF ~r.enabled THEN PassThrough(p, [h EXCEPT !.state = "disabled"])
       ELSE IF defect = "skip_check" THEN FailOpen(p, h)
       ELSE IF _should_skip_payment_check(r) THEN PassThrough(p, [h EXCEPT !.state = "skip"])
       ELSE IF defect = "payment_config" THEN FailOpen(p, h)
       ELSE IF _get_payment_config(r) = NoConfig
       THEN PassThrough(p, [h EXCEPT !.state = "unpriced"])
       ELSE Continue(p, [h EXCEPT !.state = "priced",
                                   !.price = _get_payment_config(r).price],
                     FirstTier(r))
    /\ UNCHANGED <<payments, tokens, usage, now, nextRaw, consumeOk, limiter, admitted, passed>>

\* ------------------------------------- UnifiedPaymentGateway.verify_payment
TierResult(facilitator, result) ==
    [facilitator |-> facilitator, is_valid |-> result.is_valid, error |-> result.error]

\* a dispatch that lets the request through when verify_payment raises
RecordAttemptOpen(p, h, facilitator, result, sink, tier) ==
    LET tried == [h EXCEPT !.tiers = Append(@, TierResult(facilitator, result))] IN
    IF sink = "raise"
    THEN /\ http' = [http EXCEPT ![p] = [tried EXCEPT !.auth_raised = TRUE,
                                                       !.sink_raised = TRUE]]
         /\ loc' = [loc EXCEPT ![p] = NoFrame]
         /\ pc' = [pc EXCEPT ![p] = "call_next"]
    ELSE LET h2 == [tried EXCEPT !.analytics =
                        Append(@, [facilitator |-> facilitator,
                                   success |-> result.is_valid])] IN
         IF result.is_valid THEN Authorize(p, h2, result)
         ELSE Continue(p, h2, tier)

\* payment_gateway.py 90-103 and 113-125: record_payment_attempt is awaited
\* outside any try block, so an error of the analytics sink escapes
\* verify_payment and reaches dispatch (middleware.py 87-90); otherwise a valid
\* result is returned and an invalid one falls through to the next tier
RecordAttempt(p, h, facilitator, result, sink, tier) ==
    LET tried == [h EXCEPT !.tiers = Append(@, TierResult(facilitator, result))] IN
    IF sink = "raise"
    THEN /\ http' = [http EXCEPT ![p] = [tried EXCEPT !.auth_raised = TRUE,
                                                       !.sink_raised = TRUE]]
         /\ loc' = [loc EXCEPT ![p] = NoFrame]
         /\ pc' = [pc EXCEPT ![p] = "d_402"]
    ELSE LET h2 == [tried EXCEPT !.analytics =
                        Append(@, [facilitator |-> facilitator,
                                   success |-> result.is_valid])] IN
         IF result.is_valid THEN Authorize(p, h2, result)
         ELSE Continue(p, h2, tier)

\* a call made to the facilitator and what it returned
FacilitatorCall(call, ok, tx) == [call |-> call, ok |-> ok, tx |-> tx]

\* payai_facilitator.py 109-161: the facilitator accepts the x-payment proof
\* or rejects it; an error of the HTTP client or of decoding the header is
\* caught by the client and returned as the reason of an invalid result
VerificationResults == {"valid", "PayAI verification failed", "ConnectError"}

\* payai_facilitator.py 163-220: the facilitator settles the payment as a
\* transaction, or fails
SettlementResults == TxHashes \cup {"PayAI settlement failed"}

\* a facilitator tier that settles whatever the verification returned
VerifyPayaiUnchecked(p, verification, sink) ==
    /\ pc[p] = "gw_payai"
    /\ http' = [http EXCEPT ![p].facilitator_calls =
                    Append(@, FacilitatorCall("verify", verification = "valid", ""))]
    /\ pc' = [pc EXCEPT ![p] = "gw_payai_settle"]
    /\ UNCHANGED <<payments, tokens, usage, now, nextRaw, ops, loc, consumeOk, limiter, admitted, passed>>

\* payment_gateway.py 153-182: the facilitator verifies the x-payment proof
\* against the requirement of the endpoint's price; an invalid verification
\* is the result of the tier
_verify_payai_payment(p, verification, sink) ==
    /\ pc[p] = "gw_payai"
    /\ LET h == [http[p] EXCEPT !.facilitator_calls =
                    Append(@, FacilitatorCall("verify", verification = "valid", ""))] IN
       IF verification = "valid"
       THEN /\ http' = [http EXCEPT ![p] = h]
            /\ pc' = [pc EXCEPT ![p] = "gw_payai_settle"]
            /\ UNCHANGED loc
       ELSE RecordAttempt(p, h, "payai", Invalid(verification), sink,
                          TierAfterPayai(http[p].req))
    /\ UNCHANGED <<payments, tokens, usage, now, nextRaw, ops, consumeOk, limiter, admitted, passed>>

\* payment_gateway.py 184-206: the facilitator settles the payment; a failed
\* settlement is the result of the tier, a settled transaction is recorded
\* as a payment of the endpoint's price
_verify_payai_payment_settle(p, settlement, sink) ==
    /\ pc[p] = "gw_payai_settle"
    /\ LET h == [http[p] EXCEPT !.facilitator_calls =
                    Append(@, FacilitatorCall("settle", settlement \in TxHashes,
                                              IF settlement \in TxHashes
                                              THEN settlement ELSE ""))] IN
       IF settlement \in TxHashes
       THEN /\ http' = [http EXCEPT ![p] = h]
            /\ loc' = [loc EXCEPT ![p] = [NoFrame EXCEPT !.op = "create_payment_record",
                                           !.caller = "gw_payai_recorded",
                                           !.tx = settlement, !.amount = http[p].price]]
            /\ pc' = [pc EXCEPT ![p] = "cpr_lookup"]
       ELSE RecordAttempt(p, h, "payai", Invalid(settlement), sink,
                          TierAfterPayai(http[p].req))
    /\ UNCHANGED <<payments, tokens, usage, now, nextRaw, ops, consumeOk, limiter, admitted, passed>>

\* a facilitator tier without the try block around create_payment_record
VerifyPayaiRecordedUncaught(p, sink) ==
    /\ pc[p] = "gw_payai_recorded"
    /\ IF loc[p].result.kind = "dict"
       THEN RecordAttempt(p, http[p], "payai",
                          Valid(loc[p].result.dict.id, "payai_facilitator"),
                          sink, TierAfterPayai(http[p].req))
       ELSE /\ http' = [http EXCEPT ![p].auth_raised = TRUE]
            /\ loc' = [loc EXCEPT ![p] = NoFrame]
            /\ pc' = [pc EXCEPT ![p] = "d_402"]
    /\ UNCHANGED <<payments, tokens, usage, now, nextRaw, ops, consumeOk, limiter, admitted, passed>>

\* payment_gateway.py 208-220: the record was created or found, or creating
\* it raised, which _verify_payai_payment turns into an invalid result
_verify_payai_payment_recorded(p, sink) ==
    /\ pc[p] = "gw_payai_recorded"
    /\ RecordAttempt(p, http[p], "payai",
                     IF loc[p].result.kind = "dict"
                     THEN Valid(loc[p].result.dict.id, "payai_facilitator")
                     ELSE Invalid("PayAI error"),
                     sink, TierAfterPayai(http[p].req))
    /\ UNCHANGED <<payments, tokens, usage, now, nextRaw, ops, consumeOk, limiter, admitted, passed>>

\* payment_verifier.verify_payment as _validate_onchain_payment uses it: the
\* chain verifier accepts the transaction, rejects it, or finds an amount
\* below the minimum
ChainVerifications == {"valid", "Payment verification failed", "Payment amount too small"}

\* middleware.py 202-233: a rejected transaction is an invalid result; an
\* accepted one is recorded by a call of create_payment_record without its
\* required arguments to_address, block_number and confirmations (216-222),
\* a TypeError that the method catches and returns as an invalid result
OnchainResult(verification) ==
    IF verification = "valid" THEN Invalid("TypeError") ELSE Invalid(verification)

\* payment_gateway.py 108-125 / middleware.py 192-233
_validate_onchain_payment(p, verification, sink) ==
    /\ pc[p] = "gw_native"
    /\ RecordAttempt(p, [http[p] EXCEPT !.onchain_verified = (verification = "valid")],
                     "kamiyo_native", OnchainResult(verification), sink,
                     TierAfterNative(http[p].req))
    /\ UNCHANGED <<payments, tokens, usage, now, nextRaw, ops, consumeOk, limiter, admitted, passed>>

\* middleware.py 173-190 on the payment that get_payment_by_token returned:
\* for a payment that was found, line 176 calls get_current_time, which
\* PaymentTracker does not define; the AttributeError is caught at 188
ValidateTokenResult(result) ==
    IF result.kind = "None" THEN Invalid("Invalid payment token")
    ELSE IF result.kind = "dict" THEN Invalid("AttributeError")
    ELSE Invalid(result.err)

\* payment_gateway.py 128-136 / middleware.py 168-190
_validate_payment_token(p) ==
    /\ pc[p] = "gw_token_resolved"
    /\ LET result == ValidateTokenResult(loc[p].result)
           tried == [http[p] EXCEPT !.tiers = Append(@, TierResult("token", result))] IN
       IF result.is_valid THEN Authorize(p, tried, result)
       ELSE Authorize(p, tried, Invalid("No valid payment authorization found"))
    /\ UNCHANGED <<payments, tokens, usage, now, nextRaw, ops, consumeOk, limiter, admitted, passed>>

\* a dispatch that answers 402 when record_usage raises
dispatch_usage_recorded_closed(p) ==
    /\ pc[p] = "d_usage_recorded"
    /\ http' = [http EXCEPT ![p].usage_raised = (loc[p].result.kind = "raise")]
    /\ loc' = [loc EXCEPT ![p] = NoFrame]
    /\ pc' = [pc EXCEPT ![p] = IF loc[p].result.kind = "raise" THEN "d_402" ELSE "call_next"]
    /\ UNCHANGED <<payments, tokens, usage, now, nextRaw, ops, consumeOk, limiter, admitted, passed>>

\* middleware.py 94-104: an error of record_usage is logged and the request
\* goes on to the downstream handler
dispatch_usage_recorded(p) ==
    /\ pc[p] = "d_usage_recorded"
    /\ http' = [http EXCEPT ![p].usage_raised = (loc[p].result.kind = "raise")]
    /\ loc' = [loc EXCEPT ![p] = NoFrame]
    /\ pc' = [pc EXCEPT ![p] = "call_next"]
    /\ UNCHANGED <<payments, tokens, usage, now, nextRaw, ops, consumeOk, limiter, admitted, passed>>

\* ------------------------------------------------------- the 402 response
\* a Decimal is held as its coefficient and the number of its fractional
\* digits: [coeff |-> 1, exp |-> 2] is Decimal('0.01')
RECURSIVE Pow10(_)
Pow10(n) == IF n = 0 THEN 1 ELSE 10 * Pow10(n - 1)

\* str(float) writes the shortest decimal numeral: no trailing zero
RECURSIVE ShortestNumeral(_, _)
ShortestNumeral(coeff, exp) ==
    IF exp > 0 /\ coeff % 10 = 0
    THEN ShortestNumeral(coeff \div 10, exp - 1)
    ELSE [coeff |-> coeff, exp |-> exp]

\* middleware.py 244: Decimal(str(payment_config['price'])); the configured
\* price is a float, held here in millionths of a dollar
DecimalOfPrice(price) == ShortestNumeral(price, 6)

\* payment_gateway.py 286: float(price_usdc), in millionths of a dollar
FloatOfDecimal(d) ==
    IF d.exp <= 6 THEN d.coeff * Pow10(6 - d.exp) ELSE d.coeff \div Pow10(d.exp - 6)

DigitChar(d) ==
    CASE d = 0 -> "0" [] d = 1 -> "1" [] d = 2 -> "2" [] d = 3 -> "3" [] d = 4 -> "4"
      [] d = 5 -> "5" [] d = 6 -> "6" [] d = 7 -> "7" [] d = 8 -> "8" [] d = 9 -> "9"

\* str() of a non-negative int
RECURSIVE IntStr(_)
IntStr(n) == IF n < 10 THEN DigitChar(n) ELSE IntStr(n \div 10) \o DigitChar(n % 10)

AtomicUnitsNoScale(price_usdc) == IntStr(price_usdc.coeff)

\* payai_facilitator.py 277: str(int(price_usdc * Decimal(10 ** 6))); the
\* product is exact and int() drops what is left of the fraction
AtomicUnits(price_usdc) ==
    IntStr(IF price_usdc.exp <= 6
           THEN price_usdc.coeff * Pow10(6 - price_usdc.exp)
           ELSE price_usdc.coeff \div Pow10(price_usdc.exp - 6))

\* payai_facilitator.py 265-274: the USDC contract of the network, Base's for
\* a network that is not listed
UsdcAddresses == {"base", "base-sepolia", "polygon", "ethereum", "solana", "avalanche"}

AssetOf(network) == IF network \in UsdcAddresses THEN <<"usdc", network>> ELSE <<"usdc", "base">>

\* payai_facilitator.py 243-290 and 341-354
create_payment_requirement(merchant_address, endpoint, price_usdc, network) ==
    [scheme |-> "exact", network |-> network,
     max_amount_required |-> AtomicUnits(price_usdc), asset |-> AssetOf(network),
     pay_to |-> merchant_address, resource |-> endpoint]

\* payai_facilitator.py 292-325
payai_create_402_response(merchant_address, endpoint, price_usdc, networks) ==
    [x402Version |-> 1,
     accepts |-> [i \in DOMAIN networks |->
                     create_payment_requirement(merchant_address, endpoint, price_usdc,
                                                networks[i])]]

\* payment_verifier.py 599-601
get_supported_chains == <<"base", "ethereum", "solana">>

\* payment_verifier.py 603-614: the configured receiving address of a chain
get_payment_address(chain) ==
    CASE chain = "base" -> "base_payment_address"
      [] chain = "ethereum" -> "ethereum_payment_address"
      [] chain = "solana" -> "solana_payment_address"
      [] OTHER -> ""

\* payment_gateway.py 277-280: the native addresses, collected only by a
\* gateway that was given the middleware
NativeAddresses(middleware) ==
    IF middleware
    THEN [i \in DOMAIN get_supported_chains |->
             <<get_supported_chains[i], get_payment_address(get_supported_chains[i])>>]
    ELSE <<>>

NativeChains(native_addresses) == [i \in DOMAIN native_addresses |-> native_addresses[i][1]]

\* payment_gateway.py 61: the facilitator pays to the Base address by default
DefaultMerchant == "base_payment_address"

Create402NativeFirst(middleware, merchant_address, endpoint, price_usdc) ==
    [payment_required |-> TRUE, endpoint |-> endpoint,
     amount_usdc |-> FloatOfDecimal(price_usdc),
     payment_options |->
        (IF Len(NativeAddresses(middleware)) > 0
         THEN <<[provider |-> "KAMIYO Native", type |-> "direct_transfer",
                 priority |-> 2, recommended |-> FALSE,
                 supported_chains |-> NativeChains(NativeAddresses(middleware)),
                 payment_addresses |-> NativeAddresses(middleware)]>>
         ELSE <<>>)
        \o <<[provider |-> "PayAI Network", type |-> "facilitator", priority |-> 1,
              recommended |-> TRUE,
              supported_chains |-> <<"solana", "base", "polygon", "avalanche", "sei", "iotex">>,
              x402_standard |-> payai_create_402_response(merchant_address, endpoint,
                                    price_usdc, <<"base", "solana", "polygon">>)]>>]

\* payment_gateway.py 257-324: the facilitator option always, then the native
\* option when there are native addresses (a dict, held as a sequence of
\* <<chain, address>> pairs in insertion order)
create_402_response(middleware, merchant_address, endpoint, price_usdc) ==
    [payment_required |-> TRUE, endpoint |-> endpoint,
     amount_usdc |-> FloatOfDecimal(price_usdc),
     payment_options |->
        <<[provider |-> "PayAI Network", type |-> "facilitator", priority |-> 1,
           recommended |-> TRUE,
           supported_chains |-> <<"solana", "base", "polygon", "avalanche", "sei", "iotex">>,
           x402_standard |-> payai_create_402_response(merchant_address, endpoint,
                                 price_usdc, <<"base", "solana", "polygon">>)]>>
        \o (IF Len(NativeAddresses(middleware)) > 0
            THEN <<[provider |-> "KAMIYO Native", type |-> "direct_transfer",
                    priority |-> 2, recommended |-> FALSE,
                    supported_chains |-> NativeChains(NativeAddresses(middleware)),
                    payment_addresses |-> NativeAddresses(middleware)]>>
            ELSE <<>>)]

\* middleware.py 235-283: the middleware's own gateway (middleware.py 51-54)
\* builds the body
Response402(r, price) ==
    [status |-> 402, from |-> "x402",
     headers |-> [X_Payment_Required |-> "true", X_Payment_Amount |-> price,
                  X_Payment_Currency |-> "USDC"],
     body |-> create_402_response(TRUE, DefaultMerchant, r.path, DecimalOfPrice(price))]

\* middleware.py 90 and 107: answer 402; an error raised while the response
\* is built is caught by the outer handler (109-113)
_create_402_response(p) ==
    /\ pc[p] = "d_402"
    /\ IF http[p].defect = "create_402"
       THEN FailOpen(p, http[p])
       ELSE /\ http' = [http EXCEPT ![p].response = Response402(http[p].req, http[p].price)]
            /\ pc' = [pc EXCEPT ![p] = "done"]
            /\ UNCHANGED loc
    /\ UNCHANGED <<payments, tokens, usage, now, nextRaw, ops, consumeOk, limiter, admitted, passed>>

\* the answer of the downstream handler
Downstream == [status |-> 200, from |-> "downstream", headers |-> NoHeaders, body |-> NoBody]
\* the downstream handler's own error, which leaves dispatch
DownstreamError == [status |-> 500, from |-> "downstream", headers |-> NoHeaders, body |-> NoBody]

\* the request of the frame is handed to the downstream handler: when it is
\* handed on for the first time and on the strength of a payment, that
\* payment has let one more request through
PassedOn(h) ==
    IF h.calls = 0 /\ h.auth.is_valid /\ h.auth.payment_id \in PaymentIds
    THEN [passed EXCEPT ![h.auth.payment_id] = @ + 1]
    ELSE passed

\* middleware.py 69, 73, 78, 104: call_next inside the try block; an error of
\* the downstream handler is caught by the outer handler too (109)
call_next(p, outcome) ==
    /\ pc[p] = "call_next"
    /\ IF outcome = "ok"
       THEN /\ http' = [http EXCEPT ![p].calls = @ + 1, ![p].response = Downstream]
            /\ pc' = [pc EXCEPT ![p] = "done"]
       ELSE /\ http' = [http EXCEPT ![p].calls = @ + 1]
            /\ pc' = [pc EXCEPT ![p] = "call_next_fallback"]
    /\ passed' = PassedOn(http[p])
    /\ UNCHANGED <<payments, tokens, usage, now, nextRaw, ops, loc, consumeOk, limiter, admitted>>

\* middleware.py 113: call_next in the outer handler
call_next_fallback(p, outcome) ==
    /\ pc[p] = "call_next_fallback"
    /\ http' = [http EXCEPT ![p].calls = @ + 1,
                            ![p].response = IF outcome = "ok" THEN Downstream
                                            ELSE DownstreamError]
    /\ pc' = [pc EXCEPT ![p] = "done"]
    /\ passed' = PassedOn(http[p])
    /\ UNCHANGED <<payments, tokens, usage, now, nextRaw, ops, loc, consumeOk, limiter, admitted>>

Outcomes == {"ok", "raise"}

\* ------------------------------------------------------- specifications
\* the steps of the ledger calls that touch the database
LedgerSteps ==
    \/ \E p \in Procs : create_payment_select(p)
    \/ \E p \in Procs : create_payment_commit(p)
    \/ \E p \in Procs : update_payment_usage_commit(p)
    \/ \E p \in Procs : record_usage_insert(p)
    \/ \E p \in Procs : create_token_commit(p)
    \/ \E p \in Procs : get_payment_by_token_hash_touch(p)

\* the ledger as its callers and the periodic tasks use it
NextLedger ==
    \/ Tick
    \/ \E p \in Procs : Finish(p)
    \/ LedgerSteps
    \/ \E p \in Procs, tx \in TxHashes, a \in Amounts : create_payment_record_call(p, tx, a)
    \/ \E p \in Procs, id \in PaymentIds : record_usage_call(p, id)
    \/ \E p \in Procs : cleanup_expired_payments(p)
    \/ \E p \in Procs, id \in PaymentIds : generate_payment_token(p, id)
    \/ \E p \in Procs, raw \in RawTokens : get_payment_by_token_call(p, raw)
    \/ \E p \in Procs : task_cleanup_expired_payments(p)
    \/ \E p \in Procs : task_cleanup_expired_payments_commit(p)
    \/ \E p \in Procs : cleanup_expired_tokens(p)
    \/ \E p \in Procs : recalculate_payment_stats(p)
    \/ \E p \in Procs : recalculate_payment_stats_commit(p)
    \/ \E p \in Procs : cleanup_old_usage_records(p)

SpecLedger == Init /\ [][NextLedger]_vars

\* payments recorded and consumed by concurrent callers, nothing else
NextPayments ==
    \/ Tick
    \/ \E p \in Procs : Finish(p)
    \/ \E p \in Procs, tx \in TxHashes, a \in Amounts : create_payment_record_call(p, tx, a)
    \/ \E p \in Procs : create_payment_select(p)
    \/ \E p \in Procs : create_payment_commit(p)
    \/ \E p \in Procs, id \in PaymentIds : record_usage_call(p, id)
    \/ \E p \in Procs : update_payment_usage_commit(p)
    \/ \E p \in Procs : record_usage_insert(p)

SpecPayments == Init /\ [][NextPayments]_vars

\* the amounts recorded when allocations are compared: below one request,
\* one and two requests, and amounts of a dollar and more
AllocationAmounts == Amounts \cup {1000000, 1001000, 2000000}

\* payments of these amounts recorded by concurrent callers
NextAllocation ==
    \/ \E p \in Procs : Finish(p)
    \/ \E p \in Procs, tx \in TxHashes, a \in AllocationAmounts :
          create_payment_record_call(p, tx, a)
    \/ \E p \in Procs : create_payment_select(p)
    \/ \E p \in Procs : create_payment_commit(p)

SpecAllocation == Init /\ [][NextAllocation]_vars

\* ------------------------------------------------- building the challenge
\* the prices a challenge is built for: Decimal('0.01'), '0.005', '0.02',
\* '0.010', '1', '2147' and, below one atomic unit, '0.0000015'
GatewayPrices == {[coeff |-> 1, exp |-> 2], [coeff |-> 5, exp |-> 3], [coeff |-> 2, exp |-> 2],
                  [coeff |-> 10, exp |-> 3], [coeff |-> 1, exp |-> 0]}

ChallengePrices == GatewayPrices \cup {[coeff |-> 2147, exp |-> 0], [coeff |-> 15, exp |-> 7]}

ChallengeNetworks == {<<>>, <<"base">>, <<"base", "solana">>, <<"base", "solana", "polygon">>,
                      <<"sei", "base">>}

Merchants == {DefaultMerchant, "0xmerchant"}

PricedEndpoints == DOMAIN EndpointPrices

\* UnifiedPaymentGateway.create_402_response (payment_gateway.py 257-324),
\* called on a gateway built with or without the middleware
gateway_create_402_response(p, middleware, merchant_address, endpoint, price_usdc) ==
    /\ Start(p)
    /\ loc' = [loc EXCEPT ![p] =
                  [op |-> "create_402_response", middleware |-> middleware,
                   merchant_address |-> merchant_address, endpoint |-> endpoint,
                   price_usdc |-> price_usdc, networks |-> <<>>,
                   body |-> create_402_response(middleware, merchant_address, endpoint,
                                                price_usdc)]]
    /\ pc' = [pc EXCEPT ![p] = "done"]
    /\ UNCHANGED <<payments, tokens, usage, now, nextRaw, http, consumeOk, limiter, admitted, passed>>

\* PayAIFacilitator.create_402_response (payai_facilitator.py 292-325)
facilitator_create_402_response(p, merchant_address, endpoint, price_usdc, networks) ==
    /\ Start(p)
    /\ loc' = [loc EXCEPT ![p] =
                  [op |-> "payai.create_402_response", middleware |-> FALSE,
                   merchant_address |-> merchant_address, endpoint |-> endpoint,
                   price_usdc |-> price_usdc, networks |-> networks,
                   body |-> payai_create_402_response(merchant_address, endpoint,
                                                      price_usdc, networks)]]
    /\ pc' = [pc EXCEPT ![p] = "done"]
    /\ UNCHANGED <<payments, tokens, usage, now, nextRaw, http, consumeOk, limiter, admitted, passed>>

NextChallenge ==
    \/ Finish(1)
    \/ \E middleware \in BOOLEAN, merchant \in Merchants, endpoint \in PricedEndpoints,
          price \in GatewayPrices :
          gateway_create_402_response(1, middleware, merchant, endpoint, price)
    \/ \E merchant \in Merchants, endpoint \in PricedEndpoints, price \in ChallengePrices,
          networks \in ChallengeNetworks :
          facilitator_create_402_response(1, merchant, endpoint, price, networks)

SpecChallenge == Init /\ [][NextChallenge]_vars

\* ------------------------------------------ PaymentVerifier.verify_payment
\* payment_verifier.py 58-90: the supported chains
SupportedChains == {"base", "ethereum", "solana"}

\* config.py 112-114
RequiredConfirmations ==
    [c \in SupportedChains |-> CASE c = "base" -> 6 [] c = "ethereum" -> 12 [] OTHER -> 32]

\* payment_verifier.py 55, config.py 105: Decimal(str(0.10)) is Decimal('0.1')
min_payment_amount == [coeff |-> 1, exp |-> 1]

\* payment_verifier.py 310: timedelta(days=7), in hours
MaxAgeHours == 168

\* ChainConfig.usdc_decimals (payment_verifier.py 64, 74, 84)
usdc_decimals == 6

DecimalZero == [coeff |-> 0, exp |-> 0]

\* Decimal(amount_raw) / Decimal(10 ** decimals)
DecimalDiv(amount_raw, decimals) == [coeff |-> amount_raw, exp |-> decimals]

DecimalIsZero(d) == d.coeff = 0

DecimalLess(a, b) == a.coeff * Pow10(b.exp) < b.coeff * Pow10(a.exp)

\* what the chain's node answers about a transaction hash: the receipt (or
\* the way fetching it fails), current block minus the transaction's block,
\* the token transfers of the transaction in order, the age of its block in
\* hours and whether the block can be fetched; utc_offset is the local
\* time zone of the server, in hours east of UTC
Receipts == {"success", "failed", "none", "TransactionNotFound", "rpc_error",
             "no_client", "bad_signature"}

ConfirmationDepths == {0, 5, 6, 11, 12, 31, 32}

\* the sender of every transfer of the transactions drawn here
Payer == "0xpayer"

TransferLog(kind, to, raw) == [kind |-> kind, from |-> Payer, to |-> to, raw |-> raw]

\* a list of logs (EVM) or instructions (Solana): "usdc_transfer" is a
\* Transfer event of the USDC contract or a parsed SPL transfer of USDC,
\* "other" is any other log or instruction
TransferLists ==
    {<<>>,
     <<TransferLog("usdc_transfer", "base_payment_address", 0)>>,
     <<TransferLog("usdc_transfer", "base_payment_address", 99999)>>,
     <<TransferLog("usdc_transfer", "base_payment_address", 100000)>>,
     <<TransferLog("usdc_transfer", "base_payment_address", 1500000)>>,
     <<TransferLog("usdc_transfer", "ethereum_payment_address", 1500000)>>,
     <<TransferLog("usdc_transfer", "solana_payment_address", 99999)>>,
     <<TransferLog("usdc_transfer", "solana_payment_address", 1500000)>>,
     <<TransferLog("usdc_transfer", "0xpayer", 1500000)>>,
     <<TransferLog("other", "base_payment_address", 1500000)>>,
     <<TransferLog("other", "solana_payment_address", 1500000)>>,
     <<TransferLog("usdc_transfer", "base_payment_address", 0),
       TransferLog("usdc_transfer", "base_payment_address", 1500000)>>,
     <<TransferLog("usdc_transfer", "0xpayer", 1500000),
       TransferLog("usdc_transfer", "base_payment_address", 1500000)>>,
     <<TransferLog("other", "solana_payment_address", 1500000),
       TransferLog("usdc_transfer", "solana_payment_address", 1500000)>>,
     <<TransferLog("usdc_transfer", "base_payment_address", 99999),
       TransferLog("usdc_transfer", "base_payment_address", 1500000)>>}

BlockAges == {0, 168, 169}

UtcOffsets == {-2, 0, 2}

Chains == SupportedChains \cup {"polygon"}

Transactions ==
    [receipt : Receipts, confirmations : ConfirmationDepths, logs : TransferLists,
     block_age : BlockAges, get_block_ok : BOOLEAN, utc_offset : UtcOffsets]

\* payment_verifier.py 247-273 and 462-495: the first USDC transfer to the
\* payment address ends the search; 0 when there is none
RECURSIVE FirstTransferTo(_, _, _)
FirstTransferTo(logs, address, i) ==
    IF i > Len(logs) THEN 0
    ELSE IF logs[i].kind = "usdc_transfer" /\ logs[i].to = address THEN i
    ELSE FirstTransferTo(logs, address, i + 1)

\* PaymentVerification (payment_verifier.py 30-42); the risk score is held
\* in tenths, the error message by its fixed part
PaymentVerification(valid, chain, amount_usdc, confirmations, risk_score, error_message) ==
    [is_valid |-> valid, chain |-> chain, amount_usdc |-> amount_usdc,
     from_address |-> "", to_address |-> "",
     confirmations |-> confirmations, risk_score |-> risk_score,
     error_message |-> error_message, raised |-> FALSE]

\* the result with the sender and the receiver of the transfer found
\* (payment_verifier.py 269-270, 492-494); both stay '' when there is none
WithTransfer(v, logs, address) ==
    IF FirstTransferTo(logs, address, 1) = 0 THEN v
    ELSE [v EXCEPT !.from_address = logs[FirstTransferTo(logs, address, 1)].from,
                   !.to_address = logs[FirstTransferTo(logs, address, 1)].to]

\* payment_verifier.py 227-228, 282-283: the sender of the transaction and
\* the contract it called
WithTransaction(v) == [v EXCEPT !.from_address = Payer, !.to_address = "usdc_contract"]

NoVerification == PaymentVerification(FALSE, "", DecimalZero, 0, 0, "")

\* an exception that leaves the verifier
VerificationRaised == [NoVerification EXCEPT !.raised = TRUE]

\* payment_verifier.py 575-597: min(0.1, 1.0)
_calculate_risk_score == IF 1 < 10 THEN 1 ELSE 10

\* payment_verifier.py 243-273, 455-495
TransferredAmount(logs, address) ==
    IF FirstTransferTo(logs, address, 1) = 0 THEN DecimalZero
    ELSE DecimalDiv(logs[FirstTransferTo(logs, address, 1)].raw, usdc_decimals)

\* payment_verifier.py 306-310: datetime.utcnow() minus
\* datetime.fromtimestamp(block.timestamp), which is local time
tx_age(t) == t.block_age - t.utc_offset

VerifyEvmUncaught(chain, t) ==
    IF t.receipt \in {"rpc_error", "no_client", "bad_signature"}
    THEN VerificationRaised
    ELSE PaymentVerification(FALSE, chain, DecimalZero, 0, 10, "Transaction not found")

\* payment_verifier.py 162-368
_verify_evm_payment(chain, t) ==
    LET amount_usdc == TransferredAmount(t.logs, get_payment_address(chain))
    IN  IF t.receipt \in {"rpc_error", "no_client", "bad_signature"}
        THEN PaymentVerification(FALSE, chain, DecimalZero, 0, 10, "Error verifying payment")
        ELSE IF t.receipt = "TransactionNotFound"
        THEN PaymentVerification(FALSE, chain, DecimalZero, 0, 10,
                                 "Transaction not found on chain")
        ELSE IF t.receipt = "none"
        THEN PaymentVerification(FALSE, chain, DecimalZero, 0, 10, "Transaction not found")
        ELSE IF t.receipt = "failed"
        THEN PaymentVerification(FALSE, chain, DecimalZero, 0, 10, "Transaction failed")
        ELSE IF t.confirmations < RequiredConfirmations[chain]
        THEN WithTransaction(PaymentVerification(FALSE, chain, DecimalZero, t.confirmations, 5,
                                 "Insufficient confirmations"))
        ELSE IF DecimalIsZero(amount_usdc)
        THEN WithTransaction(PaymentVerification(FALSE, chain, DecimalZero, t.confirmations, 8,
                                 "No USDC transfer to payment address found in transaction"))
        ELSE IF DecimalLess(amount_usdc, min_payment_amount)
        THEN WithTransfer(PaymentVerification(FALSE, chain, amount_usdc, t.confirmations, 3,
                                 "Payment amount too low"),
                          t.logs, get_payment_address(chain))
        ELSE IF ~t.get_block_ok
        THEN PaymentVerification(FALSE, chain, DecimalZero, 0, 10, "Error verifying payment")
        ELSE IF tx_age(t) > MaxAgeHours
        THEN WithTransfer(PaymentVerification(FALSE, chain, amount_usdc, t.confirmations, 7,
                                 "Transaction too old"),
                          t.logs, get_payment_address(chain))
        ELSE WithTransfer(PaymentVerification(TRUE, chain, amount_usdc, t.confirmations,
                                 _calculate_risk_score, ""),
                          t.logs, get_payment_address(chain))

\* payment_verifier.py 370-573
_verify_solana_payment(t) ==
    LET amount_usdc == TransferredAmount(t.logs, get_payment_address("solana"))
    IN  IF t.receipt = "no_client"
        THEN PaymentVerification(FALSE, "solana", DecimalZero, 0, 10,
                                 "Solana client not initialized")
        ELSE IF t.receipt = "bad_signature"
        THEN PaymentVerification(FALSE, "solana", DecimalZero, 0, 10,
                                 "Invalid Solana signature format")
        ELSE IF t.receipt \in {"rpc_error", "TransactionNotFound"}
        THEN PaymentVerification(FALSE, "solana", DecimalZero, 0, 10,
                                 "Error verifying Solana payment")
        ELSE IF t.receipt = "none"
        THEN PaymentVerification(FALSE, "solana", DecimalZero, 0, 10,
                                 "Transaction not found on Solana")
        ELSE IF t.receipt = "failed"
        THEN PaymentVerification(FALSE, "solana", DecimalZero, 0, 10, "Transaction failed")
        ELSE IF DecimalIsZero(amount_usdc)
        THEN WithTransfer(PaymentVerification(FALSE, "solana", DecimalZero, t.confirmations, 8,
                                 "No USDC transfer to payment address found in transaction"),
                          t.logs, get_payment_address("solana"))
        ELSE IF t.confirmations < RequiredConfirmations["solana"]
        THEN WithTransfer(PaymentVerification(FALSE, "solana", amount_usdc, t.confirmations, 5,
                                 "Insufficient confirmations"),
                          t.logs, get_payment_address("solana"))
        ELSE IF DecimalLess(amount_usdc, min_payment_amount)
        THEN WithTransfer(PaymentVerification(FALSE, "solana", amount_usdc, t.confirmations, 3,
                                 "Payment amount too low"),
                          t.logs, get_payment_address("solana"))
        ELSE WithTransfer(PaymentVerification(TRUE, "solana", amount_usdc, t.confirmations,
                                 _calculate_risk_score, ""),
                          t.logs, get_payment_address("solana"))

\* payment_verifier.py 122-160
VerifyPayment(chain, t) ==
    IF chain \notin SupportedChains
    THEN PaymentVerification(FALSE, chain, DecimalZero, 0, 10, "Unsupported chain")
    ELSE IF chain = "solana" THEN _verify_solana_payment(t)
    ELSE _verify_evm_payment(chain, t)

\* the verifier is asked about a transaction
InitVerifier ==
    /\ payments = <<>>
    /\ tokens = {}
    /\ usage = [i \in PaymentIds |-> <<>>]
    /\ now = 0
    /\ nextRaw = 0
    /\ ops = 0
    /\ http = [p \in Procs |-> NoHttp]
    /\ consumeOk = [i \in PaymentIds |-> 0]
    /\ limiter = NewRateLimiter
    /\ admitted = [i \in Identifiers |-> <<>>]
    /\ passed = [i \in PaymentIds |-> 0]
    /\ pc = [p \in Procs |-> IF p = 1 THEN "verify_payment" ELSE "idle"]
    /\ \E chain \in Chains, t \in Transactions :
          loc = [p \in Procs |->
                    IF p = 1
                    THEN [op |-> "verify_payment", chain |-> chain, t |-> t,
                          result |-> NoVerification]
                    ELSE NoFrame]

verify_payment(p) ==
    /\ pc[p] = "verify_payment"
    /\ loc' = [loc EXCEPT ![p].result = VerifyPayment(loc[p].chain, loc[p].t)]
    /\ pc' = [pc EXCEPT ![p] = "done"]
    /\ UNCHANGED <<payments, tokens, usage, now, nextRaw, ops, http, consumeOk, limiter, admitted, passed>>

NextVerifier ==
    \/ verify_payment(1)
    \/ Finish(1)

SpecVerifier == InitVerifier /\ [][NextVerifier]_vars

\* ------------------------------------------------ RiskScorer.score_payment
\* scores, weights and thresholds are held in hundredths; an overall score is
\* the fraction num / den of hundredths
\* risk_scorer.py 39-40: the defaults of the constructor
max_score == 100

RejectThresholds == {80, 100}

\* risk_scorer.py 106-124; the age is in minutes, -1 when there is no
\* timestamp
_score_transaction_age(age_minutes) ==
    IF age_minutes = -1 THEN 30
    ELSE IF age_minutes < 5 THEN 40
    ELSE IF age_minutes < 30 THEN 20
    ELSE IF age_minutes < 60 * 24 THEN 10
    ELSE 5

\* risk_scorer.py 132-143
required_confirmations(chain) ==
    CASE chain \in {"base", "avalanche", "solana", "sei", "peaq"} -> 1
      [] chain \in {"polygon", "ethereum", "iotex"} -> 3
      [] OTHER -> 3

ScoreConfirmationsFlat(confirmations, chain) ==
    IF confirmations >= required_confirmations(chain) THEN 10
    ELSE IF confirmations >= 1 THEN 0
    ELSE 70

\* risk_scorer.py 126-152
_score_confirmations(confirmations, chain) ==
    IF confirmations >= required_confirmations(chain) * 2 THEN 0
    ELSE IF confirmations >= required_confirmations(chain) THEN 10
    ELSE IF confirmations >= 1 THEN 30
    ELSE 70

\* risk_scorer.py 154-170: the thresholds 0.10, 1.0, 100.0 and 1000.0
_score_amount(amount) ==
    IF DecimalLess(amount, [coeff |-> 1, exp |-> 1]) THEN 50
    ELSE IF DecimalLess(amount, [coeff |-> 1, exp |-> 0]) THEN 10
    ELSE IF DecimalLess(amount, [coeff |-> 100, exp |-> 0]) THEN 5
    ELSE IF DecimalLess(amount, [coeff |-> 1000, exp |-> 0]) THEN 10
    ELSE 30

\* risk_scorer.py 172-188
_score_chain(chain) ==
    CASE chain \in {"base", "ethereum"} -> 5
      [] chain \in {"polygon", "avalanche"} -> 10
      [] chain \in {"solana", "sei"} -> 15
      [] chain \in {"iotex", "peaq"} -> 20
      [] OTHER -> 25

\* risk_scorer.py 190-233: the address is held by whether it has the format
\* of its chain; the lists of known addresses are empty
_score_address_reputation(well_formed, chain) ==
    IF chain = "solana" /\ ~well_formed THEN 50
    ELSE IF chain /= "solana" /\ ~well_formed THEN 60
    ELSE 10

\* the external risk service: not configured, failing (an error or a status
\* other than 200), or answering a risk_score
NoScore == [present |-> FALSE, score |-> 0]

ExternalAnswers == {[kind |-> "unconfigured", risk_score |-> 0],
                    [kind |-> "error", risk_score |-> 0],
                    [kind |-> "200", risk_score |-> 0],
                    [kind |-> "200", risk_score |-> 100],
                    [kind |-> "200", risk_score |-> 1000],
                    [kind |-> "200", risk_score |-> -200]}

\* risk_scorer.py 235-268
_get_external_risk_score(external) ==
    IF external.kind = "200" THEN [present |-> TRUE, score |-> external.risk_score]
    ELSE NoScore

\* dict order of the factors (risk_scorer.py 66-88)
FactorOrder == <<"age", "confirmations", "amount", "chain", "address_reputation",
                 "external_api">>

\* risk_scorer.py 275-282
weights == [f \in {"age", "confirmations", "amount", "chain", "address_reputation",
                   "external_api"} |->
               CASE f = "age" -> 10 [] f = "confirmations" -> 30 [] f = "amount" -> 15
                 [] f = "chain" -> 15 [] f = "address_reputation" -> 20
                 [] f = "external_api" -> 10]

\* risk_scorer.py 284-290: the two sums over the factors of the dict
RECURSIVE TotalScore(_, _)
TotalScore(factors, i) ==
    IF i > Len(FactorOrder) THEN 0
    ELSE (IF FactorOrder[i] \in DOMAIN factors
          THEN factors[FactorOrder[i]] * weights[FactorOrder[i]] ELSE 0)
         + TotalScore(factors, i + 1)

RECURSIVE TotalWeight(_, _)
TotalWeight(factors, i) ==
    IF i > Len(FactorOrder) THEN 0
    ELSE (IF FactorOrder[i] \in DOMAIN factors THEN weights[FactorOrder[i]] ELSE 0)
         + TotalWeight(factors, i + 1)

WeightedScoreUnclamped(factors) ==
    IF TotalWeight(factors, 1) = 0 THEN [num |-> 50, den |-> 1]
    ELSE [num |-> TotalScore(factors, 1), den |-> TotalWeight(factors, 1)]

\* risk_scorer.py 270-296
_calculate_weighted_score(factors) ==
    IF TotalWeight(factors, 1) = 0 THEN [num |-> 50, den |-> 1]
    ELSE IF TotalScore(factors, 1) < 0 THEN [num |-> 0, den |-> 1]
    ELSE IF TotalScore(factors, 1) > max_score * TotalWeight(factors, 1)
    THEN [num |-> max_score, den |-> 1]
    ELSE [num |-> TotalScore(factors, 1), den |-> TotalWeight(factors, 1)]

\* risk_scorer.py 308: max() keeps the first of the factors with the highest
\* score
RECURSIVE HighestFactor(_, _)
HighestFactor(factors, i) ==
    IF FactorOrder[i] \in DOMAIN factors
       /\ \A f \in DOMAIN factors : factors[f] <= factors[FactorOrder[i]]
    THEN FactorOrder[i]
    ELSE HighestFactor(factors, i + 1)

\* risk_scorer.py 311-318
reasons(factor_name) ==
    CASE factor_name = "age" -> "Transaction is very recent"
      [] factor_name = "confirmations" -> "Insufficient confirmations"
      [] factor_name = "amount" -> "Unusual payment amount"
      [] factor_name = "chain" -> "High-risk blockchain network"
      [] factor_name = "address_reputation" -> "Sender address has poor reputation"
      [] factor_name = "external_api" -> "External risk service flagged as risky"
      [] OTHER -> "Multiple risk factors"

\* risk_scorer.py 298-322: the reason without the score it ends with
_generate_reason(factors, is_high_risk) ==
    IF is_high_risk THEN "High risk: " \o reasons(HighestFactor(factors, 1))
    ELSE "Low risk: All checks passed"

IsHighRiskAbove(total_score, reject_threshold) ==
    total_score.num > reject_threshold * total_score.den

\* risk_scorer.py 94
IsHighRisk(total_score, reject_threshold) ==
    total_score.num >= reject_threshold * total_score.den

\* risk_scorer.py 66-88: the factors of a payment
Factors(s) ==
    [f \in {"age", "confirmations", "amount", "chain", "address_reputation"}
           \cup (IF _get_external_risk_score(s.external).present
                 THEN {"external_api"} ELSE {}) |->
        CASE f = "age" -> _score_transaction_age(s.age_minutes)
          [] f = "confirmations" -> _score_confirmations(s.confirmations, s.chain)
          [] f = "amount" -> _score_amount(s.amount_usdc)
          [] f = "chain" -> _score_chain(s.chain)
          [] f = "address_reputation" -> _score_address_reputation(s.well_formed, s.chain)
          [] f = "external_api" -> _get_external_risk_score(s.external).score]

\* RiskScore (risk_scorer.py 16-22, 99-104)
RiskScoreOf(factors, reject_threshold) ==
    LET total_score == _calculate_weighted_score(factors)
        is_high_risk == IsHighRisk(total_score, reject_threshold)
    IN  [score |-> total_score, factors |-> factors,
         reason |-> _generate_reason(factors, is_high_risk),
         is_high_risk |-> is_high_risk]

\* the payments that are scored
RiskChains == {"base", "ethereum", "solana", "dogechain"}

RiskConfirmations == {-1, 0, 1, 2, 3, 5, 6}

RiskAmounts == {[coeff |-> 5, exp |-> 2], [coeff |-> 1, exp |-> 1], [coeff |-> 99, exp |-> 2],
                [coeff |-> 1, exp |-> 0], [coeff |-> 100, exp |-> 0],
                [coeff |-> 1000, exp |-> 0]}

RiskAges == {-1, 0, 1440}

ScoredPayments ==
    [chain : RiskChains, confirmations : RiskConfirmations, amount_usdc : RiskAmounts,
     well_formed : BOOLEAN, age_minutes : RiskAges, external : ExternalAnswers]

\* the factor dicts the weighted score is computed for on its own: any of
\* three factors, each at one of a few scores
FactorSamples == {0, 40, 100, 300, -100}

FactorDicts == UNION {[S -> FactorSamples] : S \in SUBSET {"age", "confirmations", "external_api"}}

\* a payment is handed to a scorer built with some reject threshold, or a
\* factor dict to the weighted score
InitRisk ==
    /\ payments = <<>>
    /\ tokens = {}
    /\ usage = [i \in PaymentIds |-> <<>>]
    /\ now = 0
    /\ nextRaw = 0
    /\ ops = 0
    /\ http = [p \in Procs |-> NoHttp]
    /\ consumeOk = [i \in PaymentIds |-> 0]
    /\ limiter = NewRateLimiter
    /\ admitted = [i \in Identifiers |-> <<>>]
    /\ passed = [i \in PaymentIds |-> 0]
    /\ \/ /\ pc = [p \in Procs |-> IF p = 1 THEN "score_payment" ELSE "idle"]
          /\ \E s \in ScoredPayments, reject_threshold \in RejectThresholds :
                loc = [p \in Procs |->
                          IF p = 1
                          THEN [op |-> "score_payment", s |-> s, factors |-> << >>,
                                reject_threshold |-> reject_threshold, result |-> NoScore]
                          ELSE NoFrame]
       \/ /\ pc = [p \in Procs |-> IF p = 1 THEN "_calculate_weighted_score" ELSE "idle"]
          /\ \E factors \in FactorDicts :
                loc = [p \in Procs |->
                          IF p = 1
                          THEN [op |-> "_calculate_weighted_score", s |-> NoScore,
                                factors |-> factors, reject_threshold |-> 0,
                                result |-> NoScore]
                          ELSE NoFrame]

\* RiskScorer.score_payment (risk_scorer.py 50-104)
score_payment(p) ==
    /\ pc[p] = "score_payment"
    /\ loc' = [loc EXCEPT ![p].result =
                  RiskScoreOf(Factors(loc[p].s), loc[p].reject_threshold)]
    /\ pc' = [pc EXCEPT ![p] = "done"]
    /\ UNCHANGED <<payments, tokens, usage, now, nextRaw, ops, http, consumeOk, limiter, admitted, passed>>

\* RiskScorer._calculate_weighted_score (risk_scorer.py 270-296)
calculate_weighted_score(p) ==
    /\ pc[p] = "_calculate_weighted_score"
    /\ loc' = [loc EXCEPT ![p].result = _calculate_weighted_score(loc[p].factors)]
    /\ pc' = [pc EXCEPT ![p] = "done"]
    /\ UNCHANGED <<payments, tokens, usage, now, nextRaw, ops, http, consumeOk, limiter, admitted, passed>>

NextRisk ==
    \/ score_payment(1)
    \/ calculate_weighted_score(1)
    \/ Finish(1)

SpecRisk == InitRisk /\ [][NextRisk]_vars

\* ------------------------------------------- RateLimiter.check_rate_limit
\* the limits the callers apply, per identifier: at most max_requests calls
\* in window_seconds; the window is counted in hours, as the clock is
max_requests == [i \in Identifiers |-> IF i = "ip1" THEN 2 ELSE 1]

window_seconds == [i \in Identifiers |-> IF i = "ip1" THEN 1 ELSE 2]

\* security.py 227: timedelta(hours=1)
CleanupHours == 1

\* a dict with one key set
DictSet(d, k, v) == [x \in DOMAIN d \cup {k} |-> IF x = k THEN v ELSE d[x]]

\* a dict without the given keys
DictDel(d, ks) == [x \in DOMAIN d \ ks |-> d[x]]

\* security.py 205-208 and 231-234: the times of the list after the cutoff
RECURSIVE After(_, _)
After(times, cutoff) ==
    IF times = <<>> THEN <<>>
    ELSE (IF Head(times) > cutoff THEN <<Head(times)>> ELSE <<>>)
         \o After(Tail(times), cutoff)

\* security.py 191-197
StillBlocked(l, identifier) ==
    identifier \in DOMAIN l.blocked_ips /\ now < l.blocked_ips[identifier]

\* security.py 199-208: the history of the identifier inside the window
History(l, identifier, window) ==
    IF identifier \in DOMAIN l.requests
    THEN After(l.requests[identifier], now - window)
    ELSE <<>>

\* security.py 178-222: the limiter after the call
CheckRateLimitState(l, identifier, max, window) ==
    IF StillBlocked(l, identifier) THEN l
    ELSE LET unblocked == DictDel(l.blocked_ips, {identifier})
             history == History(l, identifier, window)
         IN  IF Len(history) >= max
             THEN [requests |-> DictSet(l.requests, identifier, history),
                   blocked_ips |-> DictSet(unblocked, identifier, now + window * 2)]
             ELSE [requests |-> DictSet(l.requests, identifier, Append(history, now)),
                   blocked_ips |-> unblocked]

\* security.py 178-222: (allowed, remaining_requests)
CheckRateLimitResult(l, identifier, max, window) ==
    IF StillBlocked(l, identifier) THEN <<FALSE, 0>>
    ELSE IF Len(History(l, identifier, window)) >= max THEN <<FALSE, 0>>
    ELSE <<TRUE, max - (Len(History(l, identifier, window)) + 1)>>

check_rate_limit(identifier) ==
    /\ ops < MaxOps
    /\ ops' = ops + 1
    /\ limiter' = CheckRateLimitState(limiter, identifier, max_requests[identifier],
                                      window_seconds[identifier])
    /\ admitted' =
          IF CheckRateLimitResult(limiter, identifier, max_requests[identifier],
                                  window_seconds[identifier])[1]
          THEN [admitted EXCEPT ![identifier] = Append(@, now)]
          ELSE admitted
    /\ loc' = [loc EXCEPT ![1] =
                  [op |-> "check_rate_limit", identifier |-> identifier,
                   result |-> CheckRateLimitResult(limiter, identifier,
                                  max_requests[identifier], window_seconds[identifier])]]
    /\ UNCHANGED <<payments, tokens, usage, now, nextRaw, pc, http, consumeOk, passed>>

\* security.py 224-241
cleanup_old_entries ==
    /\ limiter' =
          [requests |->
              DictDel([i \in DOMAIN limiter.requests |->
                          After(limiter.requests[i], now - CleanupHours)],
                      {i \in DOMAIN limiter.requests :
                          After(limiter.requests[i], now - CleanupHours) = <<>>}),
           blocked_ips |->
              DictDel(limiter.blocked_ips,
                      {i \in DOMAIN limiter.blocked_ips : limiter.blocked_ips[i] < now})]
    /\ UNCHANGED <<payments, tokens, usage, now, nextRaw, ops, pc, loc, http, consumeOk,
                   admitted, passed>>

NextLimiter ==
    \/ Tick
    \/ \E identifier \in Identifiers : check_rate_limit(identifier)
    \/ cleanup_old_entries

SpecLimiter == Init /\ [][NextLimiter]_vars

\* the ledger and the tasks used by one caller, one call after the other
NextSerial ==
    \/ Tick
    \/ Finish(1)
    \/ LedgerSteps
    \/ \E tx \in TxHashes, a \in Amounts : create_payment_record_call(1, tx, a)
    \/ \E id \in PaymentIds : record_usage_call(1, id)
    \/ cleanup_expired_payments(1)
    \/ \E id \in PaymentIds : generate_payment_token(1, id)
    \/ \E raw \in RawTokens : get_payment_by_token_call(1, raw)
    \/ task_cleanup_expired_payments(1)
    \/ task_cleanup_expired_payments_commit(1)
    \/ cleanup_expired_tokens(1)
    \/ recalculate_payment_stats(1)
    \/ recalculate_payment_stats_commit(1)
    \/ cleanup_old_usage_records(1)

SpecSerial == Init /\ [][NextSerial]_vars

\* the steps of a request after dispatch has taken it
DispatchSteps ==
    \/ \E p \in Procs, v \in VerificationResults, sink \in Outcomes :
          _verify_payai_payment(p, v, sink)
    \/ \E p \in Procs, s \in SettlementResults, sink \in Outcomes :
          _verify_payai_payment_settle(p, s, sink)
    \/ \E p \in Procs : create_payment_record_lookup(p)
    \/ \E p \in Procs, sink \in Outcomes : _verify_payai_payment_recorded(p, sink)
    \/ \E p \in Procs, v \in ChainVerifications, sink \in Outcomes :
          _validate_onchain_payment(p, v, sink)
    \/ \E p \in Procs : get_payment_by_token_lookup(p)
    \/ \E p \in Procs : _validate_payment_token(p)
    \/ \E p \in Procs : update_payment_usage_select(p)
    \/ \E p \in Procs : dispatch_usage_recorded(p)
    \/ \E p \in Procs : _create_402_response(p)
    \/ \E p \in Procs, o \in Outcomes : call_next(p, o)
    \/ \E p \in Procs, o \in Outcomes : call_next_fallback(p, o)

\* requests served by the interceptor, whose own code raises no error, at one
\* reading of the clock; tokens are minted for the payments the requests record
NextDispatch ==
    \/ \E p \in Procs : Finish(p)
    \/ LedgerSteps
    \/ DispatchSteps
    \/ \E p \in Procs, r \in Requests : dispatch(p, r, "none")
    \/ \E p \in Procs, id \in PaymentIds : generate_payment_token(p, id)

SpecDispatch == Init /\ [][NextDispatch]_vars

\* requests served by an interceptor whose own code raises an error at one
\* of three places, when the request gets there
NextDefect ==
    \/ \E p \in Procs : Finish(p)
    \/ LedgerSteps
    \/ DispatchSteps
    \/ \E p \in Procs, r \in Requests, d \in Defects : dispatch(p, r, d)
    \/ \E p \in Procs, id \in PaymentIds : generate_payment_token(p, id)

SpecDefect == Init /\ [][NextDefect]_vars

\* ------------------------------------------------------------ properties
\* C1: for every payment 0 <= requests_used <= requests_allocated, in every
\* state that concurrent consume calls (update_payment_usage) can reach
C1_UsedWithinAllocation ==
    \A i \in DOMAIN payments :
        /\ 0 <= payments[i].requests_used
        /\ payments[i].requests_used <= payments[i].requests_allocated

\* two consume calls that read the same row have both committed
C1_Witness ==
    \E i \in DOMAIN payments :
        /\ consumeOk[i] = 2
        /\ payments[i].requests_used = 1
        /\ payments[i].requests_allocated >= 1

\* C2: the number of consume calls on a payment that return success never
\* exceeds its requests_allocated; of two concurrent calls on a payment with
\* one request left, one succeeds and the other fails
C2_SuccessesWithinAllocation ==
    \A i \in DOMAIN payments : consumeOk[i] <= payments[i].requests_allocated

\* C3: when create_payment_record calls for one transaction interleave, one
\* row is persisted and every caller is returned that row; the duplicate
\* insert is resolved by reading the row again and is no error to the caller
C3_ConflictResolvedByReread ==
    /\ \A i, j \in DOMAIN payments :
          payments[i].tx_hash = payments[j].tx_hash => i = j
    /\ \A p \in Procs :
          pc[p] = "done" /\ loc[p].op = "create_payment_record"
             => /\ loc[p].result.kind = "dict"
                /\ loc[p].result.dict.tx_hash = loc[p].tx

\* a create_payment_record call for a transaction that is already recorded
RecordsAgain(p) ==
    /\ pc[p] = "idle"
    /\ loc'[p].op = "create_payment_record"
    /\ loc'[p].caller = "api"
    /\ \E i \in DOMAIN payments : payments[i].tx_hash = loc'[p].tx

\* C4: create_payment_record is idempotent on tx_hash: a call for a recorded
\* transaction, whatever its other arguments, returns the data of the stored
\* row, leaves the row as it is and leaves one row for the tx_hash
C4_RecordPaymentIdempotent ==
    [][\A p \in Procs :
          RecordsAgain(p) =>
             /\ payments' = payments
             /\ pc'[p] = "done"
             /\ \E i \in DOMAIN payments :
                   /\ payments[i].tx_hash = loc'[p].tx
                   /\ loc'[p].result = ReturnDict(i, payments[i])
             /\ \A i, j \in DOMAIN payments' :
                   payments'[i].tx_hash = payments'[j].tx_hash => i = j]_vars

\* a second call with another amount has returned the first call's row
C4_Witness ==
    \E p \in Procs :
        /\ pc[p] = "done"
        /\ loc[p].op = "create_payment_record"
        /\ loc[p].result.kind = "dict"
        /\ loc[p].result.dict.amount_usdc # loc[p].amount
        /\ Len(payments) = 1

\* C5: a payment's status changes only from verified to used or from verified
\* to expired: an expired payment stays expired and a used payment stays used,
\* whatever ledger calls and maintenance tasks run
C5_StatusMonotonic ==
    [][\A i \in DOMAIN payments :
          /\ payments[i].status = "expired" => payments'[i].status = "expired"
          /\ payments[i].status = "used" => payments'[i].status = "used"]_vars

\* C6: get_payment_by_token returns a payment only if the token has not
\* expired and the payment is neither expired nor used when it is returned
C6_ResolvesOnlyUsablePayment ==
    \A p \in Procs :
        pc[p] = "done" /\ loc[p].op = "get_payment_by_token"
           /\ loc[p].result.kind = "dict"
           => loc[p].result.dict.status = "verified"

\* verify_payment returned a result that is not valid
Unauthorized(h) ==
    h.state = "priced" /\ ~h.auth_raised /\ ~h.auth.is_valid /\ h.auth.error # ""

\* the 402 answer states the price: in its amount header, in the body and in
\* every requirement of the facilitator option
StatesPrice(response, price) ==
    /\ response.headers = [X_Payment_Required |-> "true", X_Payment_Amount |-> price,
                           X_Payment_Currency |-> "USDC"]
    /\ Len(response.body.payment_options) > 0
    /\ response.body.amount_usdc = price
    /\ \A i \in DOMAIN response.body.payment_options[1].x402_standard.accepts :
          response.body.payment_options[1].x402_standard.accepts[i].max_amount_required
             = IntStr(price)

C8_AuthErrorFailsClosed ==
    \A p \in Procs :
        http[p].auth_raised =>
           /\ http[p].calls = 0
           /\ pc[p] \in {"d_402", "done"}
           /\ pc[p] = "done" =>
                 /\ http[p].response.status = 402
                 /\ http[p].response.from = "x402"

\* verify_payment raised and the request has been answered 402
C8_Witness ==
    \E p \in Procs :
        /\ pc[p] = "done"
        /\ http[p].auth_raised
        /\ http[p].response.status = 402
        /\ http[p].calls = 0

\* C9: when authorization succeeded and record_usage raises, the interceptor
\* fails open: the request goes to the downstream handler and no 402 is
\* returned
C9_UsageErrorFailsOpen ==
    \A p \in Procs :
        http[p].usage_raised =>
           /\ http[p].auth.is_valid
           /\ pc[p] \in {"call_next", "call_next_fallback", "done"}
           /\ pc[p] = "done" =>
                 /\ http[p].calls >= 1
                 /\ http[p].response.from = "downstream"
                 /\ http[p].response.status # 402

\* record_usage raised for an authorized request, which was served
C9_Witness ==
    \E p \in Procs :
        /\ pc[p] = "done"
        /\ http[p].usage_raised
        /\ http[p].auth.is_valid
        /\ http[p].response = Downstream

\* C10: an unexpected error of the interceptor's own code, outside the
\* evaluation of the authorization, fails open: the request goes to the
\* downstream handler as a request for an unpriced endpoint does, and the
\* answer is never one made by the payment logic
C10_DefectFailsOpen ==
    \A p \in Procs :
        http[p].defect_raised =>
           /\ pc[p] \in {"call_next_fallback", "done"}
           /\ pc[p] = "done" =>
                 /\ http[p].calls >= 1
                 /\ http[p].response.from = "downstream"
                 /\ http[p].response.status # 402

\* building the 402 answer raised and the request was served instead
C10_Witness ==
    \E p \in Procs :
        /\ pc[p] = "done"
        /\ http[p].defect_raised
        /\ http[p].defect = "create_402"
        /\ http[p].response = Downstream

\* the skip state of the interceptor: disabled, a path without a price, a
\* preflight, a health, readiness or documentation path, a bearer credential
SkipState(r) ==
    \/ ~r.enabled
    \/ r.path \notin DOMAIN EndpointPrices
    \/ r.method = "OPTIONS"
    \/ r.path \in {"/health", "/ready", "/docs", "/redoc", "/openapi.json"}
    \/ r.bearer

\* C11: a request in the skip state is passed through untouched, whatever
\* payment headers it carries: verify_payment is not called for it, it makes
\* no ledger call, and its answer is the downstream handler's, never a 402
C11_SkipPassesThrough ==
    \A p \in Procs :
        (http[p].req # NoRequest /\ SkipState(http[p].req)) =>
           /\ http[p].tiers = <<>>
           /\ http[p].analytics = <<>>
           /\ http[p].auth = NoAuth
           /\ loc[p] = NoFrame
           /\ pc[p] \in {"call_next", "call_next_fallback", "done"}
           /\ http[p].response.status # 402
           /\ pc[p] = "done" => http[p].response.from = "downstream"

\* a request with a bearer credential and every payment header was served by
\* the downstream handler
C11_Witness ==
    \E p \in Procs :
        /\ pc[p] = "done"
        /\ http[p].req.bearer
        /\ http[p].req.enabled
        /\ http[p].req.path \in DOMAIN EndpointPrices
        /\ PaymentHeaders(http[p].req) = <<TRUE, TRUE, TRUE, MaxTokens>>
        /\ http[p].response = Downstream

\* the place of a tier in the gateway's priority order, the headers that
\* select it, and the payment_type of its valid result
TierRank(facilitator) ==
    IF facilitator = "payai" THEN 1 ELSE IF facilitator = "kamiyo_native" THEN 2 ELSE 3

TierPresent(r, facilitator) ==
    IF facilitator = "payai" THEN r.x_payment
    ELSE IF facilitator = "kamiyo_native" THEN r.x_tx /\ r.x_chain
    ELSE r.x_token # 0

TierType(facilitator) ==
    IF facilitator = "payai" THEN "payai_facilitator"
    ELSE IF facilitator = "kamiyo_native" THEN "onchain" ELSE "token"

PresentTiers(r) == {f \in {"payai", "kamiyo_native", "token"} : TierPresent(r, f)}

PayaiFailed(h) ==
    /\ Len(h.tiers) >= 1
    /\ h.tiers[1].facilitator = "payai"
    /\ ~h.tiers[1].is_valid

\* C13: when the facilitator tier fails and the on-chain headers are present
\* too, the on-chain tier is tried in the same request, and when it succeeds
\* (the chain verifier accepts the transaction) the result of verify_payment
\* is valid and tagged with the on-chain tier
C13_FallThroughToLowerTier ==
    \A p \in Procs :
        LET h == http[p] IN
        (h.auth # NoAuth /\ PayaiFailed(h) /\ TierPresent(h.req, "kamiyo_native")) =>
           /\ Len(h.tiers) >= 2
           /\ h.tiers[2].facilitator = "kamiyo_native"
           /\ h.onchain_verified =>
                 /\ h.auth.is_valid
                 /\ h.auth.payment_type = "onchain"

\* the settlement of the request's payment failed after a valid verification
SettleFailed(h) ==
    /\ Len(h.facilitator_calls) = 2
    /\ h.facilitator_calls[2].call = "settle"
    /\ ~h.facilitator_calls[2].ok

\* C14: when the facilitator verifies and then fails to settle, the gateway
\* goes on to the on-chain tier if its headers are present; with no other
\* payment header the result is invalid and its reason is the reason of the
\* failed settlement
C14_SettlementReasonReturned ==
    \A p \in Procs :
        LET h == http[p] IN
        (h.auth # NoAuth /\ SettleFailed(h)) =>
           /\ TierPresent(h.req, "kamiyo_native") =>
                 Len(h.tiers) >= 2 /\ h.tiers[2].facilitator = "kamiyo_native"
           /\ PresentTiers(h.req) = {"payai"} =>
                 /\ ~h.auth.is_valid
                 /\ h.auth.error = h.tiers[1].error
                 /\ h.auth.error = "PayAI settlement failed"

\* C15: on the facilitator tier settle is called only after verify returned
\* valid, create_payment_record is called only after settle returned success
\* and for the settled transaction, the tier's result is valid only if that
\* payment is in the ledger, and after a failed verify or settle the tier
\* makes no call to record a payment
C15_VerifySettleRecord ==
    \A p \in Procs :
        LET h == http[p]
            c == h.facilitator_calls
            recording == loc[p].op = "create_payment_record"
                            /\ loc[p].caller = "gw_payai_recorded" IN
        /\ Len(c) <= 2
        /\ Len(c) >= 1 => c[1].call = "verify"
        /\ Len(c) = 2 => c[1].ok /\ c[2].call = "settle"
        /\ recording => Len(c) = 2 /\ c[2].ok /\ loc[p].tx = c[2].tx
        /\ (Len(c) >= 1 /\ ~c[Len(c)].ok) => ~recording
        /\ \A i \in DOMAIN h.tiers :
              (h.tiers[i].facilitator = "payai" /\ h.tiers[i].is_valid) =>
                 /\ Len(c) = 2 /\ c[2].ok
                 /\ \E id \in DOMAIN payments : payments[id].tx_hash = c[2].tx
        /\ (h.auth.is_valid /\ h.auth.payment_type = "payai_facilitator") =>
              /\ h.auth.payment_id \in DOMAIN payments
              /\ payments[h.auth.payment_id].tx_hash = c[2].tx

\* a request was authorized by the facilitator tier: verified, settled, and
\* its payment recorded
C15_Witness ==
    \E p \in Procs :
        /\ http[p].auth.is_valid
        /\ http[p].auth.payment_type = "payai_facilitator"
        /\ Len(http[p].facilitator_calls) = 2
        /\ http[p].auth.payment_id \in DOMAIN payments

\* the positions of a priced request after verify_payment has returned or
\* raised
AfterVerify == {"d_402", "upu_select", "upu_commit", "ru_insert", "d_usage_recorded",
                "call_next", "call_next_fallback", "done"}

\* C16: verify_payment propagates no error of the facilitator client, the
\* chain verifier, the token lookup or the recording of the payment: whatever
\* they raise or return, it returns a result, every invalid result of a tier
\* has a reason, and a result after tiers that all failed is is_valid = false
\* with a non-empty reason
C16_VerificationErrorsRecovered ==
    \A p \in Procs :
        LET h == http[p] IN
        /\ h.auth_raised => h.sink_raised
        /\ \A i \in DOMAIN h.tiers : ~h.tiers[i].is_valid => h.tiers[i].error # ""
        /\ (h.state = "priced" /\ pc[p] \in AfterVerify /\ ~h.sink_raised) =>
              /\ h.auth # NoAuth
              /\ (\A i \in DOMAIN h.tiers : ~h.tiers[i].is_valid) =>
                    ~h.auth.is_valid /\ h.auth.error # ""

\* recording a settled payment raised (a concurrent request had recorded the
\* transaction), and verify_payment returned an invalid result
C16_Witness ==
    \E p \in Procs :
        /\ Len(http[p].tiers) >= 1
        /\ http[p].tiers[1].error = "PayAI error"
        /\ ~http[p].auth_raised
        /\ http[p].auth = Invalid("No valid payment authorization found")

\* C17: every attempt of a tier is reported to the analytics sink once, with
\* its provider and its outcome, whether it succeeded or failed: when
\* verify_payment returns after trying k tiers, the sink has k records of the
\* request, one per tier
C17_EveryAttemptReported ==
    \A p \in Procs :
        LET h == http[p] IN
        h.auth # NoAuth =>
           /\ Len(h.analytics) = Len(h.tiers)
           /\ \A i \in DOMAIN h.tiers :
                 /\ h.analytics[i].facilitator = h.tiers[i].facilitator
                 /\ h.analytics[i].success = h.tiers[i].is_valid

C19_MintRequiresVerified ==
    [][\A p \in Procs :
          (pc[p] = "idle" /\ loc'[p].op = "generate_payment_token") =>
             LET id == loc'[p].id IN
             /\ id \notin DOMAIN payments =>
                   /\ loc'[p].result = Raise("Payment not found")
                   /\ pc'[p] = "done"
                   /\ UNCHANGED <<tokens, nextRaw>>
             /\ (id \in DOMAIN payments /\ payments[id].status # "verified") =>
                   /\ loc'[p].result = Raise("Payment not verified")
                   /\ pc'[p] = "done"
                   /\ UNCHANGED <<tokens, nextRaw>>
             /\ loc'[p].result.kind = "raise" => tokens' = tokens]_vars

\* a mint for a payment that is used or expired has failed
C19_Witness ==
    \E p \in Procs :
        /\ loc[p].op = "generate_payment_token"
        /\ loc[p].result = Raise("Payment not verified")
        /\ loc[p].id \in DOMAIN payments
        /\ payments[loc[p].id].status \in {"used", "expired"}
        /\ tokens = {}

\* C20: the expires_at of every stored token is no later than the expires_at
\* of the payment that owns it
C20_TokenExpiryWithinPayment ==
    \A t \in tokens :
        /\ t.payment_id \in DOMAIN payments
        /\ t.expires_at <= payments[t.payment_id].expires_at

\* a stored token has reached its expiry, which is that of its payment
C20_Witness ==
    \E t \in tokens :
        /\ t.payment_id \in DOMAIN payments
        /\ t.expires_at = payments[t.payment_id].expires_at
        /\ now >= t.expires_at

\* C21: resolving the secret that generate_payment_token returned, for a
\* payment that is verified and whose expiry is still ahead, returns that
\* payment; a token row holds the hash of the secret and not the secret; and
\* resolving a secret that was never minted returns nothing
C21_MintResolveRoundTrip ==
    [][/\ \A p \in Procs :
             /\ (pc[p] = "idle" /\ loc'[p].op = "get_payment_by_token") =>
                   /\ loc'[p].raw > nextRaw =>
                         loc'[p].result = ReturnNone /\ pc'[p] = "done"
                   /\ \A t \in tokens :
                         (/\ t.token_hash = [sha256 |-> loc'[p].raw]
                          /\ payments[t.payment_id].status = "verified"
                          /\ payments[t.payment_id].expires_at > now) =>
                            pc'[p] = "tok_touch" /\ loc'[p].id = t.payment_id
             /\ (pc[p] = "tok_touch" /\ pc'[p] # "tok_touch") =>
                   \A t \in tokens :
                      (/\ t.token_hash = [sha256 |-> loc[p].raw]
                       /\ payments[t.payment_id].status = "verified"
                       /\ payments[t.payment_id].expires_at > now) =>
                         loc'[p].result = ReturnDict(t.payment_id, payments[t.payment_id])
       /\ \A t \in tokens' :
             /\ DOMAIN t = {"token_hash", "payment_id", "expires_at", "last_used_at"}
             /\ \E raw \in 1..nextRaw' : t.token_hash = [sha256 |-> raw]]_vars

\* the secret minted for a verified payment has been resolved to it
C21_Witness ==
    \E p \in Procs :
        /\ loc[p].op = "get_payment_by_token"
        /\ loc[p].result.kind = "dict"
        /\ loc[p].result.dict.status = "verified"
        /\ \E t \in tokens : /\ t.token_hash = [sha256 |-> loc[p].raw]
                              /\ t.payment_id = loc[p].result.dict.id
                              /\ t.last_used_at >= 0

\* C22: record_usage appends a usage row for every call on a payment, also
\* for a call whose consume fails because the allocation is exhausted
C22_UsageRowForEveryCall ==
    [][\A p \in Procs :
          /\ (/\ pc[p] = "idle" /\ loc'[p].op = "record_usage" /\ pc'[p] = "done"
              /\ loc'[p].id \in DOMAIN payments) =>
                Len(usage'[loc'[p].id]) = Len(usage[loc'[p].id]) + 1
          /\ (pc[p] = "ru_insert" /\ pc'[p] = "done") =>
                Len(usage'[loc[p].id]) = Len(usage[loc[p].id]) + 1]_vars

\* C23: cleanup_expired_payments sets to 'expired' exactly the payments that
\* are 'verified' with expires_at in the past, returns their number, deletes
\* exactly the tokens whose expires_at is in the past, and leaves every other
\* payment and every other column as it was
C23_SweepExpiresVerifiedOnly ==
    [][\A p \in Procs :
          (pc[p] = "idle" /\ loc'[p].op = "cleanup_expired_payments") =>
             LET due == {i \in DOMAIN payments :
                            payments[i].status = "verified" /\ payments[i].expires_at < now} IN
             /\ DOMAIN payments' = DOMAIN payments
             /\ \A i \in DOMAIN payments :
                   payments'[i] = IF i \in due
                                  THEN [payments[i] EXCEPT !.status = "expired"]
                                  ELSE payments[i]
             /\ loc'[p].result = ReturnVal(Cardinality(due))
             /\ tokens' = {t \in tokens : ~(t.expires_at < now)}
             /\ usage' = usage]_vars

\* a sweep has expired a payment and left a used payment past its expiry used
C23_Witness ==
    \E p \in Procs :
        /\ loc[p].op = "cleanup_expired_payments"
        /\ loc[p].result.val >= 1
        /\ \E i \in DOMAIN payments : payments[i].status = "expired"
        /\ \E i \in DOMAIN payments :
              payments[i].status = "used" /\ payments[i].expires_at < now

\* C24: a payment's expires_at is the time of the create_payment_record call
\* that created it plus the validity window, and no later call changes it
C24_ExpiryFixedAtCreation ==
    [][/\ \A i \in DOMAIN payments :
             /\ i \in DOMAIN payments'
             /\ payments'[i].expires_at = payments[i].expires_at
       /\ \A p \in Procs :
             (pc[p] = "idle" /\ loc'[p].op = "create_payment_record"
                 /\ pc'[p] = "cp_select") =>
                loc'[p].expires = now + TokenExpiryHours
       /\ \A i \in DOMAIN payments' :
             i \notin DOMAIN payments =>
                \E p \in Procs : /\ pc[p] = "cp_commit"
                                  /\ payments'[i].expires_at = loc[p].expires]_vars

\* a payment that was consumed and then swept has the expiry it was given
C24_Witness ==
    \E i \in DOMAIN payments :
        /\ payments[i].requests_used >= 1
        /\ payments[i].status = "expired"
        /\ payments[i].expires_at = TokenExpiryHours

\* C25: a newly recorded payment has requests_allocated = floor(amount x
\* requests_per_dollar), requests_used = 0 and status 'verified'
C25_AllocationIsFloor ==
    [][\A i \in DOMAIN payments' :
          i \notin DOMAIN payments =>
             /\ payments'[i].requests_allocated =
                    (payments'[i].amount * RequestsPerDollar) \div UsdcScale
             /\ payments'[i].requests_used = 0
             /\ payments'[i].status = "verified"]_vars

\* C26: create_402_response returns one option per configured provider (the
\* facilitator always, the native provider when the gateway has the
\* middleware), in strictly ascending priority; the first option is the
\* facilitator's and the only one recommended; the native option carries the
\* configured receiving address of every supported chain
C26_OptionsByPriority ==
    \A p \in Procs :
        (pc[p] = "done" /\ loc[p].op = "create_402_response") =>
            LET o == loc[p].body.payment_options
            IN /\ Len(o) = (IF loc[p].middleware THEN 2 ELSE 1)
               /\ \A i, j \in DOMAIN o :
                     i < j => /\ o[i].priority < o[j].priority
                              /\ o[i].provider /= o[j].provider
               /\ o[1].provider = "PayAI Network"
               /\ o[1].type = "facilitator"
               /\ o[1].recommended
               /\ \A i \in DOMAIN o : i > 1 => ~o[i].recommended
               /\ loc[p].middleware => o[Len(o)].provider = "KAMIYO Native"
               /\ \A i \in DOMAIN o :
                     o[i].provider = "KAMIYO Native" =>
                        o[i].payment_addresses =
                           <<<<"base", "base_payment_address">>,
                             <<"ethereum", "ethereum_payment_address">>,
                             <<"solana", "solana_payment_address">>>>

\* a gateway with the middleware has built a challenge with both options
C26_Witness ==
    \E p \in Procs :
        /\ pc[p] = "done"
        /\ loc[p].op = "create_402_response"
        /\ loc[p].middleware
        /\ Len(loc[p].body.payment_options) = 2

\* the decimal numeral of the whole atomic units of each price of
\* ChallengePrices
NumeralOfAtomicUnits(price) ==
    CASE price = [coeff |-> 1, exp |-> 2] -> "10000"
      [] price = [coeff |-> 5, exp |-> 3] -> "5000"
      [] price = [coeff |-> 2, exp |-> 2] -> "20000"
      [] price = [coeff |-> 10, exp |-> 3] -> "10000"
      [] price = [coeff |-> 1, exp |-> 0] -> "1000000"
      [] price = [coeff |-> 2147, exp |-> 0] -> "2147000000"
      [] price = [coeff |-> 15, exp |-> 7] -> "1"

\* C27: the facilitator's 402 body has x402Version 1 and one requirement per
\* requested network, in order, each with scheme 'exact', payTo the merchant
\* address, resource the endpoint and maxAmountRequired the decimal numeral
\* of the price in whole atomic units (price x 10^6; 0.01 gives '10000')
C27_FacilitatorBody ==
    \A p \in Procs :
        (pc[p] = "done" /\ loc[p].op = "payai.create_402_response") =>
            LET f == loc[p]
            IN /\ f.body.x402Version = 1
               /\ Len(f.body.accepts) = Len(f.networks)
               /\ \A i \in DOMAIN f.body.accepts :
                     /\ f.body.accepts[i].network = f.networks[i]
                     /\ f.body.accepts[i].scheme = "exact"
                     /\ f.body.accepts[i].pay_to = f.merchant_address
                     /\ f.body.accepts[i].resource = f.endpoint
                     /\ f.body.accepts[i].max_amount_required
                           = NumeralOfAtomicUnits(f.price_usdc)

\* a challenge for Decimal('0.01') on two networks asks for '10000' twice
C27_Witness ==
    \E p \in Procs :
        /\ pc[p] = "done"
        /\ loc[p].op = "payai.create_402_response"
        /\ loc[p].price_usdc = [coeff |-> 1, exp |-> 2]
        /\ Len(loc[p].networks) = 2
        /\ \A i \in {1, 2} : loc[p].body.accepts[i].max_amount_required = "10000"

\* the transaction of a finished verification has a USDC transfer to the
\* receiving address of its chain whose amount is the returned one
QualifyingTransfer(f) ==
    \E i \in DOMAIN f.t.logs :
        /\ f.t.logs[i].kind = "usdc_transfer"
        /\ f.t.logs[i].to = get_payment_address(f.chain)
        /\ f.t.logs[i].raw >= 100000
        /\ f.result.amount_usdc = [coeff |-> f.t.logs[i].raw, exp |-> 6]

\* C28: verify_payment answers valid only if the chain is supported, the
\* transaction exists and executed successfully, it has the chain's required
\* confirmations, it holds a USDC transfer to the chain's receiving address
\* of at least the minimum payment, whose raw value over 10^6 is the
\* returned amount, and, on the EVM chains, its block is at most 7 days old
C28_ValidOnlyIfAllChecksPass ==
    \A p \in Procs :
        (pc[p] = "done" /\ loc[p].op = "verify_payment" /\ loc[p].result.is_valid) =>
            /\ loc[p].chain \in {"base", "ethereum", "solana"}
            /\ loc[p].t.receipt = "success"
            /\ loc[p].t.confirmations >=
                  (CASE loc[p].chain = "base" -> 6 [] loc[p].chain = "ethereum" -> 12
                     [] OTHER -> 32)
            /\ QualifyingTransfer(loc[p])
            /\ loc[p].chain /= "solana" => loc[p].t.block_age <= 168

\* C29: a transaction that executed successfully on a supported chain with
\* fewer confirmations than the chain requires is rejected with the
\* insufficient-confirmations reason and a risk score of at least 0.5,
\* whatever its transfers are
C29_InsufficientConfirmations ==
    \A p \in Procs :
        (/\ pc[p] = "done"
         /\ loc[p].op = "verify_payment"
         /\ loc[p].chain \in {"base", "ethereum", "solana"}
         /\ loc[p].t.receipt = "success"
         /\ loc[p].t.confirmations <
               (CASE loc[p].chain = "base" -> 6 [] loc[p].chain = "ethereum" -> 12
                  [] OTHER -> 32))
        => /\ ~loc[p].result.is_valid
           /\ loc[p].result.error_message = "Insufficient confirmations"
           /\ loc[p].result.risk_score >= 5

\* the transaction of the call cannot be verified at all: its chain is not
\* supported, it is not found, it failed, or the node cannot be asked
FailsEarly(f) ==
    \/ f.chain \notin {"base", "ethereum", "solana"}
    \/ f.t.receipt /= "success"

\* C30: verify_payment never raises; every result that is not valid carries
\* a non-empty reason and a risk score between 0.3 and 1.0, and an
\* unsupported chain, a missing or failed transaction and an RPC exception
\* each give such a result
C30_FailuresAreResults ==
    \A p \in Procs :
        (pc[p] = "done" /\ loc[p].op = "verify_payment") =>
            /\ ~loc[p].result.raised
            /\ FailsEarly(loc[p]) => ~loc[p].result.is_valid
            /\ ~loc[p].result.is_valid =>
                  /\ loc[p].result.error_message /= ""
                  /\ loc[p].result.risk_score >= 3
                  /\ loc[p].result.risk_score <= 10

\* an RPC exception on an EVM chain has been answered as a failed
\* verification
C30_Witness ==
    \E p \in Procs :
        /\ pc[p] = "done"
        /\ loc[p].op = "verify_payment"
        /\ loc[p].chain = "base"
        /\ loc[p].t.receipt = "rpc_error"
        /\ ~loc[p].result.is_valid
        /\ loc[p].result.error_message = "Error verifying payment"

\* C31: a successful verification returns risk score 0 together with the
\* sender, the receiver and the amount of the transfer found and the
\* confirmations of the transaction
C31_SuccessHasRiskZero ==
    \A p \in Procs :
        (pc[p] = "done" /\ loc[p].op = "verify_payment" /\ loc[p].result.is_valid) =>
            /\ loc[p].result.risk_score = 0
            /\ loc[p].result.from_address = "0xpayer"
            /\ loc[p].result.to_address = get_payment_address(loc[p].chain)
            /\ loc[p].result.confirmations = loc[p].t.confirmations
            /\ \E i \in DOMAIN loc[p].t.logs :
                  loc[p].result.amount_usdc = [coeff |-> loc[p].t.logs[i].raw, exp |-> 6]

\* C32: with the other inputs fixed, the confirmations factor of a payment
\* is at least that of any payment with more confirmations and at most that
\* of any with fewer, on every chain, and its amount factor is at least that
\* of any larger amount below 1.0 and at most that of any smaller amount
\* when its own amount is below 1.0
C32_RiskMonotone ==
    \A p \in Procs :
        (pc[p] = "done" /\ loc[p].op = "score_payment") =>
            LET s == loc[p].s
                f == loc[p].result.factors
            IN /\ \A c \in RiskConfirmations :
                     /\ s.confirmations <= c =>
                           f["confirmations"] >= _score_confirmations(c, s.chain)
                     /\ c <= s.confirmations =>
                           _score_confirmations(c, s.chain) >= f["confirmations"]
               /\ \A a \in RiskAmounts :
                     /\ (~DecimalLess(a, s.amount_usdc) /\ DecimalLess(a, [coeff |-> 1, exp |-> 0]))
                           => f["amount"] >= _score_amount(a)
                     /\ (~DecimalLess(s.amount_usdc, a)
                         /\ DecimalLess(s.amount_usdc, [coeff |-> 1, exp |-> 0]))
                           => _score_amount(a) >= f["amount"]

\* an unconfirmed payment of 0.05 on Ethereum has been scored 0.7 for its
\* confirmations and 0.5 for its amount
C32_Witness ==
    \E p \in Procs :
        /\ pc[p] = "done"
        /\ loc[p].op = "score_payment"
        /\ loc[p].s.chain = "ethereum"
        /\ loc[p].s.confirmations = 0
        /\ loc[p].s.amount_usdc = [coeff |-> 5, exp |-> 2]
        /\ loc[p].result.factors["confirmations"] = 70
        /\ loc[p].result.factors["amount"] = 50

\* the weighted sum of the scores of a factor dict and the sum of the
\* weights of its factors, in hundredths
WeightedSum(f, w) ==
    (IF "age" \in DOMAIN f THEN (IF w THEN 10 ELSE 10 * f["age"]) ELSE 0)
    + (IF "confirmations" \in DOMAIN f THEN (IF w THEN 30 ELSE 30 * f["confirmations"]) ELSE 0)
    + (IF "amount" \in DOMAIN f THEN (IF w THEN 15 ELSE 15 * f["amount"]) ELSE 0)
    + (IF "chain" \in DOMAIN f THEN (IF w THEN 15 ELSE 15 * f["chain"]) ELSE 0)
    + (IF "address_reputation" \in DOMAIN f
       THEN (IF w THEN 20 ELSE 20 * f["address_reputation"]) ELSE 0)
    + (IF "external_api" \in DOMAIN f THEN (IF w THEN 10 ELSE 10 * f["external_api"]) ELSE 0)

\* the score is the weighted average of the dict, cut to [0, 1]
IsWeightedAverage(score, f) ==
    /\ 0 <= score.num
    /\ score.num <= 100 * score.den
    /\ score.den > 0
    /\ DOMAIN f = {} => score.num = 50 * score.den
    /\ (DOMAIN f /= {} /\ WeightedSum(f, FALSE) < 0) => score.num = 0
    /\ (DOMAIN f /= {} /\ WeightedSum(f, FALSE) > 100 * WeightedSum(f, TRUE))
          => score.num = 100 * score.den
    /\ (/\ DOMAIN f /= {}
        /\ WeightedSum(f, FALSE) >= 0
        /\ WeightedSum(f, FALSE) <= 100 * WeightedSum(f, TRUE))
          => score.num * WeightedSum(f, TRUE) = WeightedSum(f, FALSE) * score.den

\* C33: the overall score is the average of the factors that are present,
\* weighted 0.1, 0.3, 0.15, 0.15, 0.2 and 0.1 and divided by the weights of
\* those factors only; it is 0.5 for an empty dict and lies in [0, 1] even
\* when the external service answers a score outside [0, 1], which is cut
\* to the nearer end
C33_WeightedAverage ==
    \A p \in Procs :
        /\ (pc[p] = "done" /\ loc[p].op = "_calculate_weighted_score") =>
              IsWeightedAverage(loc[p].result, loc[p].factors)
        /\ (pc[p] = "done" /\ loc[p].op = "score_payment") =>
              /\ IsWeightedAverage(loc[p].result.score, loc[p].result.factors)
              /\ "external_api" \in DOMAIN loc[p].result.factors
                    <=> loc[p].s.external.kind = "200"

\* a payment whose external score was 10.0 has been scored 1.0
C33_Witness ==
    \E p \in Procs :
        /\ pc[p] = "done"
        /\ loc[p].op = "score_payment"
        /\ loc[p].s.external = [kind |-> "200", risk_score |-> 1000]
        /\ loc[p].result.score = [num |-> 100, den |-> 1]

\* C34: is_high_risk is true exactly when the overall score is at least the
\* reject threshold; the reason of a high-risk payment names one of the risk
\* factors and the reason of any other says that all checks passed
C34_HighRiskIffThreshold ==
    \A p \in Procs :
        (pc[p] = "done" /\ loc[p].op = "score_payment") =>
            LET r == loc[p].result
            IN /\ r.is_high_risk <=> r.score.num >= loc[p].reject_threshold * r.score.den
               /\ r.is_high_risk =>
                     r.reason \in {"High risk: Transaction is very recent",
                                   "High risk: Insufficient confirmations",
                                   "High risk: Unusual payment amount",
                                   "High risk: High-risk blockchain network",
                                   "High risk: Sender address has poor reputation",
                                   "High risk: External risk service flagged as risky"}
               /\ ~r.is_high_risk => r.reason = "Low risk: All checks passed"

\* a payment scored 1.0 by a scorer whose reject threshold is 1.0 is
\* high-risk, and its reason names the external service
C34_Witness ==
    \E p \in Procs :
        /\ pc[p] = "done"
        /\ loc[p].op = "score_payment"
        /\ loc[p].reject_threshold = 100
        /\ loc[p].result.score = [num |-> 100, den |-> 1]
        /\ loc[p].result.is_high_risk
        /\ loc[p].result.reason = "High risk: External risk service flagged as risky"

\* the number of calls of the identifier that were allowed in the window of
\* its length that ends at t
AdmittedInWindow(a, i, t) ==
    Cardinality({k \in DOMAIN a[i] : a[i][k] > t - (IF i = "ip1" THEN 1 ELSE 2) /\ a[i][k] <= t})

\* C35: per identifier, the calls check_rate_limit allows within any window
\* of window_seconds never exceed max_requests; a call is allowed with a
\* non-negative remaining count while fewer than max_requests calls of its
\* identifier were made, it is rejected with remaining 0 when max_requests
\* calls were already allowed in the window, and it changes nothing that
\* belongs to another identifier
C35_AtMostMaxPerWindow ==
    [][\A i \in Identifiers :
          /\ \A t \in 0..MaxTime :
                AdmittedInWindow(admitted', i, t) <= (IF i = "ip1" THEN 2 ELSE 1)
          /\ (ops' = ops + 1 /\ loc'[1].op = "check_rate_limit" /\ loc'[1].identifier = i) =>
                /\ loc'[1].result[1] => loc'[1].result[2] >= 0
                /\ (Len(admitted[i]) < (IF i = "ip1" THEN 2 ELSE 1)
                    /\ i \notin DOMAIN limiter.blocked_ips) => loc'[1].result[1]
                /\ AdmittedInWindow(admitted, i, now) >= (IF i = "ip1" THEN 2 ELSE 1)
                      => loc'[1].result = <<FALSE, 0>>
                /\ \A j \in Identifiers \ {i} :
                      /\ admitted'[j] = admitted[j]
                      /\ j \in DOMAIN limiter'.requests <=> j \in DOMAIN limiter.requests
                      /\ j \in DOMAIN limiter.requests =>
                            limiter'.requests[j] = limiter.requests[j]
                      /\ j \in DOMAIN limiter'.blocked_ips <=> j \in DOMAIN limiter.blocked_ips
                      /\ j \in DOMAIN limiter.blocked_ips =>
                            limiter'.blocked_ips[j] = limiter.blocked_ips[j]]_vars


\* C36: for every payment, the number of priced requests that the interceptor
\* handed to the downstream handler on the strength of that payment never
\* exceeds the payment's requests_allocated, also when the same transaction
\* is presented again after the allocation is used up
C36_PassesWithinAllocation ==
    \A id \in DOMAIN payments : passed[id] <= payments[id].requests_allocated


\* C37: for each inbound request the interceptor invokes the downstream
\* handler at most once, on every path through dispatch, also when the
\* downstream handler itself raises
C37_CallNextAtMostOnce ==
    \A p \in Procs : http[p].calls <= 1


\* C38: under every ledger operation and maintenance task (record_usage,
\* cleanup_expired_payments, cleanup_old_usage_records,
\* recalculate_payment_stats) the requests_used of a payment never decreases,
\* and the commit of recalculate_payment_stats never sets requests_used above
\* requests_allocated
C38_UsedNeverDecreases ==
    [][\A id \in DOMAIN payments :
          /\ payments'[id].requests_used >= payments[id].requests_used
          /\ (\E p \in Procs : pc[p] = "rps_commit" /\ pc'[p] = "done"
                 /\ payments'[id].requests_used # payments[id].requests_used) =>
                payments'[id].requests_used <= payments'[id].requests_allocated]_vars


\* C39: in every reachable state a payment with status 'used' has
\* requests_used >= requests_allocated, and a payment with status 'verified'
\* has a request remaining (requests_used < requests_allocated), also a
\* payment whose computed allocation is 0 when it is created
C39_StatusMatchesRemaining ==
    \A id \in DOMAIN payments :
       /\ payments[id].status = "used" =>
             payments[id].requests_used >= payments[id].requests_allocated
       /\ payments[id].status = "verified" =>
             payments[id].requests_used < payments[id].requests_allocated


\* a request with a method other than GET to a path of the endpoint prices,
\* with x402 enabled and no skip rule applying
OtherMethodOnPricedPath(r) ==
    /\ r.enabled
    /\ ~_should_skip_payment_check(r)
    /\ r.path \in DOMAIN EndpointPrices
    /\ r.method # "GET"

\* C40: a path is priced only for GET: a request with another method to a
\* path of the endpoint prices goes to the downstream handler without a
\* payment tier being tried, without a 402 and without a change of the
\* ledger
C40_OtherMethodsUnpriced ==
    [][\A p \in Procs :
          OtherMethodOnPricedPath(http'[p].req) =>
             /\ http'[p].state = "unpriced"
             /\ http'[p].tiers = <<>>
             /\ http'[p].facilitator_calls = <<>>
             /\ http'[p].response.status # 402
             /\ (pc[p] # pc'[p] \/ http[p] # http'[p]) =>
                   UNCHANGED <<payments, tokens, usage>>
             /\ pc'[p] \in {"call_next", "call_next_fallback", "done"}
             /\ pc'[p] = "done" => http'[p].calls >= 1]_vars

\* a POST with an x-payment header to a priced path has been answered by the downstream handler
C40_Witness ==
    \E p \in Procs :
       /\ OtherMethodOnPricedPath(http[p].req)
       /\ http[p].req.method = "POST"
       /\ http[p].req.x_payment
       /\ http[p].defect = "none"
       /\ pc[p] = "done"
       /\ http[p].response = Downstream

====
